---- MODULE Spec2Model ----
(***************************************************************************)
(* Model of the loop generation engine of audio-loop-gen:                  *)
(*   audio_loop_gen/loopgen.py         LoopGenerator (the orchestrator)    *)
(*   audio_loop_gen/loop_strategy/*.py BeatDetect, TransientAligned,       *)
(*                                     CrossFade, FadeInOut                *)
(*   audio_loop_gen/util.py            crossfade / phase / onset helpers   *)
(*                                                                         *)
(* Names: the specification's BeatAligned, SpectralCrossFade and           *)
(* FadeFallback are the classes BeatDetect, CrossFade and FadeInOut.       *)
(*                                                                         *)
(* Abstractions.  For the engine (Spec, SpecApi) sample values are not     *)
(* modelled, only the per-channel lengths, the sample indices that decide  *)
(* control flow and the indices of the shared buffer that are written.     *)
(* The util.py functions (SpecUtil) are modelled on sample sequences.      *)
(* The results of the external signal analyses (BeatNet, librosa) are      *)
(* inputs drawn in Init: the downbeat offsets, the transient count and     *)
(* threshold, the endpoints find_similar_endpoints returns, the spectral   *)
(* centroid variance, the detected onsets, and whether the analysis        *)
(* library raises.  Beat and onset positions are sample offsets, so a      *)
(* time in seconds is offset / SampleRate.  An exception is a tag: the     *)
(* tags NotSuitable, CrossfadeTooLong, InvalidLoopIndices and              *)
(* InvalidFFTLength are all ValueError in the code and differ by message.  *)
(***************************************************************************)
EXTENDS Integers, Sequences, FiniteSets, TLC

\* ---------------------------------------------------------------- bounds
SampleRate == 10          \* samples per second of the (scaled) audio
min_duration == 2         \* params.min_duration, seconds
MaxDownbeats == 3         \* downbeats BeatNet may report
MaxCalls == 2             \* generate() calls on one LoopGenerator
MaxApiCalls == 3          \* direct evaluate()/create_loop() calls
MaxSamples == 6           \* longest sample sequence given to a util.py function
MaxCrossLen == 4          \* longest array given to nearest_zero_crossing

\* ------------------------------------------------------ program constants
LOOPGEN_CROSSFADE_DURATION_MS == 1000
CROSSFADE_DURATION_MS == 600
BLEND_FADE_DURATION_MS == CROSSFADE_DURATION_MS * 2
PHASE_ALIGN_DURATION_MS == CROSSFADE_DURATION_MS * 2
SPECTRAL_CENTROIDS_THRESHOLD == 1000
CrossFade_CROSSFADE_DURATION_MS == 1000   \* CrossFade.CROSSFADE_DURATION_MS

NONE == "None"            \* Python's None

StrategyTypes == {"BeatDetect", "TransientAligned", "CrossFade", "FadeInOut"}

available_strategy_types == <<"BeatDetect", "TransientAligned", "CrossFade">>

\* The class attribute strategy_id.  TransientAligned defines none and
\* inherits LoopStrategy.strategy_id = None.
strategy_id(t) ==
  CASE t = "BeatDetect" -> "BeatDetect"
    [] t = "TransientAligned" -> NONE
    [] t = "CrossFade" -> "CrossFade"
    [] t = "FadeInOut" -> "FadeInOut"

\* Python truthiness of params.strategy_id (None and "" are falsy).
Truthy(sid) == sid # NONE /\ sid # ""

prepare_strategies_nofilter(sid) == available_strategy_types

prepare_strategies(sid) ==
  SelectSeq(available_strategy_types,
            LAMBDA t : (~Truthy(sid)) \/ strategy_id(t) = sid)

min_loop_duration == min_duration * 1000

\* --------------------------------------------------------------- inputs
AudioLens == {24, 40}
BarLens == {8, 14, 18}
FirstBeat == 2

DownbeatInputs ==
  { [i \in 1..n |-> FirstBeat + (i - 1) * bar] :
      n \in 0..MaxDownbeats, bar \in BarLens }

BeatInputs ==
  { [exc |-> "ParameterError", downbeats |-> <<>>] } \cup
  { [exc |-> NONE, downbeats |-> d] : d \in DownbeatInputs }

TransientInputs ==
  { [exc |-> "ParameterError", count |-> 0, threshold |-> 5, endpoints |-> <<-1, -1>>],
    [exc |-> NONE, count |-> 1,  threshold |-> 8, endpoints |-> <<-1, -1>>],
    [exc |-> NONE, count |-> 6,  threshold |-> 8, endpoints |-> <<-1, -1>>],
    [exc |-> NONE, count |-> 12, threshold |-> 8, endpoints |-> <<-1, -1>>],
    [exc |-> NONE, count |-> 12, threshold |-> 8, endpoints |-> <<0, 9>>],
    [exc |-> NONE, count |-> 12, threshold |-> 8, endpoints |-> <<1, 23>>] }

CentroidInputs ==
  { [exc |-> "ParameterError", variance |-> 0],
    [exc |-> NONE, variance |-> 400],
    [exc |-> NONE, variance |-> 1000] }

OnsetInputs == { <<>>, <<9>>, <<3, 21>> }

\* ---------------------------------------------------------------- state
VARIABLES
  pinned,             \* params.strategy_id as given to LoopGenerator
  crossfade,          \* LoopGenerator.__crossfade
  audio_len,          \* per-channel length of the pruned audio
  beats,              \* outcome of BeatDetect.__estimate_beats
  transients,         \* outcome of the TransientAligned analyses
  centroid,           \* outcome of librosa.feature.spectral_centroid
  onsets,             \* onsets librosa.onset.onset_detect reports
  strategies,         \* LoopGenerator.__strategies (class names)
  params_strategy_id, \* params.strategy_id (mutable output field)
  inst,               \* per strategy instance: its private fields
  pc,                 \* position inside generate()
  idx,                \* index of the for loop over __strategies
  loop,               \* local variable loop of generate()
  trace,              \* strategy calls made by the current generate()
  result,             \* how the last generate() ended
  crossfaded,         \* the final crossfade ran in the current generate()
  calls,              \* number of generate() calls begun
  analysis_runs,      \* per instance: times the analysis body ran
  first_eval,         \* per instance: value of its first evaluate() return
  last_eval,          \* per instance: value of its latest evaluate() return
  eval_true,          \* per instance: some evaluate() has returned True
  shared_writes,      \* sample indices of the shared input buffer written so far
  last,               \* the last direct evaluate()/create_loop() call
  api_calls,          \* number of direct calls made
  util_call,          \* the util.py function under call and its arguments
  util_ret,           \* what that call returned or raised
  util_again,         \* prune_silence applied to its own output
  max_queue_size,     \* LoopGeneratorServer(max_queue_size=...)
  queue,              \* LoopGeneratorServer.__queue: uuids of the waiting jobs
  conn_state,         \* per connection: "new", "open" (__connected) or "closed"
  sent,               \* per connection: the messages issued on its websocket
  job_conn,           \* per job uuid: the connection that requested it
  requests,           \* number of requests received so far
  last_req,           \* the last request handled by listen()
  worker,             \* position and job of __job_worker
  generated,          \* uuids for which audiogen.generate() was run
  dequeued_open,      \* uuids dequeued while their connection was connected
  dequeued_closed,    \* uuids dequeued while their connection was closed
  done,               \* uuids whose queue.task_done() was called
  receiver,           \* the fields of a client DataReceiver
  cli_pc,             \* position of the `generate` CLI command
  stored,             \* number of audio_store.store() calls of the command
  legacy_in,          \* analysis outcomes for the legacy BeatAligned
  legacy_self,        \* attributes of the legacy BeatAligned instance
  legacy_rets         \* outcomes of its evaluate() calls, in order

inputs == <<pinned, crossfade, audio_len, beats, transients, centroid, onsets>>
genvars == <<strategies, params_strategy_id, pc, idx, loop, trace, result, crossfaded, calls>>
instvars == <<inst, analysis_runs, first_eval, last_eval, eval_true, shared_writes>>
apivars == <<last, api_calls>>
utilvars == <<util_call, util_ret, util_again>>
srvvars == <<max_queue_size, queue, conn_state, sent, job_conn, requests, last_req,
             worker, generated, dequeued_open, dequeued_closed, done>>
clivars == <<cli_pc, stored>>
legvars == <<legacy_in, legacy_self, legacy_rets>>
sysvars == <<srvvars, receiver, clivars, legvars>>
vars == <<inputs, genvars, instvars, apivars, utilvars, sysvars>>

NoLoop == [some |-> FALSE, len |-> 0, by |-> NONE]
Bool(b) == IF b THEN "True" ELSE "False"

\* ------------------------------------------------------- util.py helpers
Min(a, b) == IF a <= b THEN a ELSE b
Max(a, b) == IF a >= b THEN a ELSE b
Abs(x) == IF x < 0 THEN -x ELSE x

Ok(len) == [exc |-> NONE, len |-> len]
Raise(e) == [exc |-> e, len |-> 0]

\* int(sample_rate * duration_ms / 1000)
DurationSamples(ms) == (SampleRate * ms) \div 1000

equal_power_crossfade_nocat(len, ms) ==
  IF DurationSamples(ms) >= len \div 2
  THEN [exc |-> "CrossfadeTooLong", len |-> 0]
  ELSE [exc |-> "None", len |-> len - DurationSamples(ms)]

\* Raises when the window is at least half the buffer; otherwise the
\* head [: -N] and the N blended samples are concatenated.
equal_power_crossfade(len, ms) ==
  IF DurationSamples(ms) >= len \div 2
  THEN Raise("CrossfadeTooLong")
  ELSE Ok((len - DurationSamples(ms)) + DurationSamples(ms))

\* audio_data[:, :fade_samples] *= fade : the slice holds min(fs, len)
\* samples and the ramp fs; numpy rejects the in-place product unless the
\* two lengths agree or the ramp has one element.
fade_in(len, ms) ==
  LET fs == DurationSamples(ms)
      k  == Min(fs, len)
  IN IF k = fs \/ fs = 1 THEN Ok(len) ELSE Raise("BroadcastError")

\* audio_data[:, -fade_samples:] *= fade : with fade_samples = 0 the slice
\* [-0:] is the whole buffer.
fade_out(len, ms) ==
  LET fs == DurationSamples(ms)
      k  == IF fs = 0 THEN len ELSE Min(fs, len)
  IN IF k = fs \/ fs = 1 THEN Ok(len) ELSE Raise("BroadcastError")

\* min(onsets, key=lambda x: abs(x - target)): the first element of the
\* (ascending) onset list at minimal distance.
NearestOnset(ons, target) ==
  LET best == CHOOSE i \in 1..Len(ons) :
                /\ \A j \in 1..Len(ons) : Abs(ons[i] - target) <= Abs(ons[j] - target)
                /\ \A j \in 1..(i - 1) : Abs(ons[j] - target) > Abs(ons[i] - target)
  IN ons[best]

adjust_loop_ends(ons, length, loop_start, loop_end) ==
  IF Len(ons) > 0
  THEN LET start_onset == NearestOnset(ons, loop_start)
           end_onset   == NearestOnset(ons, loop_end)
       IN <<IF start_onset >= 0 THEN start_onset ELSE loop_start,
            IF end_onset < length THEN end_onset ELSE loop_end>>
  ELSE <<loop_start, loop_end>>

\* Only the validation and the window length decide whether align_phase
\* returns; numpy's fft rejects a window of 0 samples with a ValueError.
align_phase(length, loop_start, loop_end, segment_length) ==
  IF loop_start < 0 \/ loop_end >= length \/ loop_end <= loop_start
  THEN Raise("InvalidLoopIndices")
  ELSE IF Min(segment_length, length) < 1
       THEN Raise("InvalidFFTLength")
       ELSE Ok(length)

\* Sample indices of the array passed to align_phase that it assigns:
\* the window [segment_b_start, segment_b_start + segment_length) of every
\* channel, in the caller's array when in_place, in a copy otherwise.
align_phase_writes(length, loop_start, loop_end, segment_length, in_place) ==
  LET seg == Min(segment_length, length)
      segment_b_start == Min(Max(loop_end - seg \div 2, 0), length - seg)
  IN IF align_phase(length, loop_start, loop_end, segment_length).exc # NONE \/ ~in_place
     THEN {}
     ELSE segment_b_start .. (segment_b_start + seg - 1)

\* Indices of loop.audio_data written by slice_and_blend: align_phase is
\* called on loop.audio_data itself with in_place=True; the slice taken
\* afterwards goes through equal_power_crossfade, whose np.concatenate
\* result is a new array, so the in-place fades touch that new array.
slice_and_blend_writes(ons, length, loop_start, loop_end) ==
  LET ends == adjust_loop_ends(ons, length, loop_start, loop_end)
      align_length == Min((ends[2] - ends[1]) \div 2, (SampleRate * PHASE_ALIGN_DURATION_MS) \div 1000)
  IN align_phase_writes(length, ends[1], ends[2], align_length, TRUE)

\* LoopStrategy.slice_and_blend: snap, phase-align, crop, crossfade, fade.
slice_and_blend(ons, length, loop_start, loop_end) ==
  LET ends  == adjust_loop_ends(ons, length, loop_start, loop_end)
      ls    == ends[1]
      le    == ends[2]
      align_length == Min((le - ls) \div 2, (SampleRate * PHASE_ALIGN_DURATION_MS) \div 1000)
      ap    == align_phase(length, ls, le, align_length)
      xf    == equal_power_crossfade(le - ls, CROSSFADE_DURATION_MS)
      fi    == fade_in(xf.len, BLEND_FADE_DURATION_MS)
      fo    == fade_out(fi.len, BLEND_FADE_DURATION_MS)
  IN IF ap.exc # NONE THEN ap
     ELSE IF xf.exc # NONE THEN xf
     ELSE IF fi.exc # NONE THEN fi
     ELSE fo


\* ------------------------------------------------ strategy instances
\* Private fields of a strategy instance after __init__.  BeatDetect and
\* TransientAligned use __evaluated/__loop_start/__loop_end, CrossFade uses
\* __is_suitable, FadeInOut none of them.
NewInstance ==
  [evaluated |-> FALSE, loop_start |-> -1, loop_end |-> -1, is_suitable |-> NONE]

\* Result of an evaluate() call: ret is "True", "False" or "raise" (with
\* exc), st the instance afterwards, ran whether the analysis body ran,
\* raised whether an exception was raised inside the analysis.
EvalResult(ret, exc, st, ran, raised) ==
  [ret |-> ret, exc |-> exc, st |-> st, ran |-> ran, raised |-> raised]

RECURSIVE Pow2Floor(_)
\* int(2 ** np.floor(np.log2(n))) for n >= 1
Pow2Floor(n) == IF n < 2 THEN 1 ELSE 2 * Pow2Floor(n \div 2)

get_loop_points_allbars(downbeat_times) ==
  LET num_bars == Len(downbeat_times) - 1
  IN IF num_bars < 1
     THEN [exc |-> "ValueError", start |-> -1, end |-> -1]
     ELSE [exc |-> NONE,
           start |-> downbeat_times[1],
           end |-> downbeat_times[num_bars + 1]]

\* BeatDetect.__get_loop_points over the downbeat offsets (0-based index
\* even_num_bars is element even_num_bars + 1 here).
get_loop_points(downbeat_times) ==
  LET num_bars == Len(downbeat_times) - 1
  IN IF num_bars < 1
     THEN [exc |-> "ValueError", start |-> -1, end |-> -1]
     ELSE [exc |-> NONE,
           start |-> downbeat_times[1],
           end |-> downbeat_times[Pow2Floor(num_bars) + 1]]

\* "downbeat_times = beats[:, 0][beats[:, 1] == 1]" for beats given as
\* records of a time and a label.
RECURSIVE DownbeatTimes(_)
DownbeatTimes(beat_list) ==
  IF beat_list = <<>> THEN <<>>
  ELSE (IF Head(beat_list).label = 1 THEN <<Head(beat_list).time>> ELSE <<>>)
         \o DownbeatTimes(Tail(beat_list))

\* The try block of BeatDetect.evaluate: __estimate_beats, then
\* __get_loop_points.
BeatAnalysis(b) ==
  IF b.exc # NONE
  THEN [exc |-> b.exc, start |-> -1, end |-> -1]
  ELSE get_loop_points(b.downbeats)

BeatDetect_evaluate(st, b) ==
  IF st.evaluated
  THEN EvalResult(Bool(st.loop_start >= 0 /\ st.loop_end >= 0), NONE, st, FALSE, FALSE)
  ELSE LET a == BeatAnalysis(b)
           loop_duration == ((a.end - a.start) * 1000) \div SampleRate
           suitable == /\ a.start >= 0 /\ a.end >= 0
                       /\ loop_duration >= min_loop_duration
       IN IF a.exc = "ValueError"
          THEN EvalResult("False", NONE, [st EXCEPT !.evaluated = TRUE], TRUE, TRUE)
          ELSE IF a.exc # NONE
          THEN EvalResult("raise", a.exc, st, TRUE, TRUE)
          ELSE EvalResult(Bool(suitable), NONE,
                 IF suitable
                 THEN [st EXCEPT !.evaluated = TRUE, !.loop_start = a.start, !.loop_end = a.end]
                 ELSE [st EXCEPT !.evaluated = TRUE],
                 TRUE, FALSE)

TransientAligned_evaluate(st, t) ==
  IF st.evaluated
  THEN EvalResult(Bool(st.loop_start >= 0), NONE, st, FALSE, FALSE)
  ELSE IF t.exc # NONE
  THEN EvalResult("raise", t.exc, st, TRUE, TRUE)
  ELSE IF t.count < 2
  THEN EvalResult("False", NONE, [st EXCEPT !.evaluated = TRUE], TRUE, FALSE)
  ELSE IF ~(t.count > t.threshold)
  THEN EvalResult("False", NONE, [st EXCEPT !.evaluated = TRUE], TRUE, FALSE)
  ELSE LET loop_start == t.endpoints[1]
           loop_end == t.endpoints[2]
           \* ((loop_end - loop_start) / sample_rate) * 1000 >= min_loop_duration
           suitable == (loop_end - loop_start) * 1000 >= min_loop_duration * SampleRate
       IN IF loop_start < 0 \/ loop_end < 0
          THEN EvalResult("False", NONE, st, TRUE, FALSE)   \* returns before __evaluated is set
          ELSE EvalResult(Bool(suitable), NONE,
                 IF suitable
                 THEN [st EXCEPT !.evaluated = TRUE, !.loop_start = loop_start, !.loop_end = loop_end]
                 ELSE [st EXCEPT !.evaluated = TRUE],
                 TRUE, FALSE)

CrossFade_evaluate(st, c) ==
  IF st.is_suitable # NONE
  THEN EvalResult(st.is_suitable, NONE, st, FALSE, FALSE)
  ELSE IF c.exc # NONE
  THEN EvalResult("raise", c.exc, st, TRUE, TRUE)
  ELSE LET suitable == Bool(c.variance < SPECTRAL_CENTROIDS_THRESHOLD)
       IN EvalResult(suitable, NONE, [st EXCEPT !.is_suitable = suitable], TRUE, FALSE)

FadeInOut_evaluate(st) == EvalResult("True", NONE, st, FALSE, FALSE)

\* evaluate() of the instance of class t on the audio described by the
\* analysis inputs b (beats), tr (transients), c (centroid).
Evaluate(t, st, b, tr, c) ==
  CASE t = "BeatDetect" -> BeatDetect_evaluate(st, b)
    [] t = "TransientAligned" -> TransientAligned_evaluate(st, tr)
    [] t = "CrossFade" -> CrossFade_evaluate(st, c)
    [] t = "FadeInOut" -> FadeInOut_evaluate(st)

\* Result of a create_loop() call: ret is "loop" or "raise" (with exc),
\* inner the value of the evaluate() call create_loop makes on entry
\* (NONE when it makes none).
CreateResult(ret, exc, lp, ev, inner) ==
  [ret |-> ret, exc |-> exc, loop |-> lp, st |-> ev.st, ran |-> ev.ran,
   raised |-> ev.raised, inner |-> inner]

FromBlend(t, ev, r) ==
  IF r.exc # NONE
  THEN CreateResult("raise", r.exc, NoLoop, ev, ev.ret)
  ELSE CreateResult("loop", NONE, [some |-> TRUE, len |-> r.len, by |-> t], ev, ev.ret)

\* The guard "if not self.evaluate(): raise ValueError(...)".
NotSuitableGuard_none(ev) == FALSE

NotSuitableGuard(ev) == ev.ret = "False"

\* create_loop() of BeatDetect and TransientAligned.
Sliced_create_loop(t, st, b, tr, c, ons, length) ==
  LET ev == Evaluate(t, st, b, tr, c)
  IN IF ev.ret = "raise"
     THEN CreateResult("raise", ev.exc, NoLoop, ev, ev.ret)
     ELSE IF NotSuitableGuard(ev)
     THEN CreateResult("raise", "NotSuitable", NoLoop, ev, ev.ret)
     ELSE FromBlend(t, ev, slice_and_blend(ons, length, ev.st.loop_start, ev.st.loop_end))

\* CrossFade.create_loop: self(type).CROSSFADE_DURATION_MS calls the
\* instance, which is not callable, so the argument list of
\* equal_power_crossfade raises TypeError before any crossfade is made.
CrossFade_create_loop(st, b, tr, c, length) ==
  LET ev == Evaluate("CrossFade", st, b, tr, c)
  IN IF ev.ret = "raise"
     THEN CreateResult("raise", ev.exc, NoLoop, ev, ev.ret)
     ELSE IF NotSuitableGuard(ev)
     THEN CreateResult("raise", "NotSuitable", NoLoop, ev, ev.ret)
     ELSE CreateResult("raise", "TypeError", NoLoop, ev, ev.ret)

\* self.__fade_duration = min(fade_duration, audio.duration // 3), with
\* audio.duration = (length * 1000) // sample_rate.
FadeInOut_fade_duration(fade_duration, length) ==
  Min(fade_duration, ((length * 1000) \div SampleRate) \div 3)

\* FadeInOut.create_loop makes no evaluate() call.
FadeInOut_create_loop(st, length) ==
  LET ev == EvalResult(NONE, NONE, st, FALSE, FALSE)
      fi == fade_in(length, FadeInOut_fade_duration(200, length))
      fo == fade_out(fi.len, FadeInOut_fade_duration(200, length))
  IN FromBlend("FadeInOut", [ev EXCEPT !.ret = NONE],
               IF fi.exc # NONE THEN fi ELSE fo)

CreateLoop(t, st, b, tr, c, ons, length) ==
  CASE t \in {"BeatDetect", "TransientAligned"} -> Sliced_create_loop(t, st, b, tr, c, ons, length)
    [] t = "CrossFade" -> CrossFade_create_loop(st, b, tr, c, length)
    [] t = "FadeInOut" -> FadeInOut_create_loop(st, length)

\* Indices of self.audio.audio_data that create_loop() of class t writes.
\* CrossFade raises before any array operation; FadeInOut calls fade_in
\* and fade_out with in_place=False, which work on a copy.
CreateLoopWrites(t, st, b, tr, c, ons, length) ==
  LET ev == Evaluate(t, st, b, tr, c)
  IN IF t \in {"BeatDetect", "TransientAligned"} /\ ev.ret = "True"
     THEN slice_and_blend_writes(ons, length, ev.st.loop_start, ev.st.loop_end)
     ELSE {}

\* ----------------------------------------------------------------- Init
Pins == {NONE, "", "BeatDetect", "TransientAligned", "CrossFade", "FadeInOut"}

NoResult == [kind |-> "init", exc |-> NONE, len |-> 0, by |-> NONE]
NoUtilCall == [fn |-> NONE]
NoUtilRet == [kind |-> NONE]
NoCall == [op |-> NONE, s |-> NONE, ret |-> NONE, exc |-> NONE, inner |-> NONE,
           prior_true |-> FALSE, raised |-> FALSE, loop |-> NoLoop]

InitEngine ==
  /\ pinned \in Pins
  /\ crossfade \in BOOLEAN
  /\ audio_len \in AudioLens
  /\ beats \in BeatInputs
  /\ \A i \in 1..Len(beats.downbeats) : beats.downbeats[i] < audio_len
  /\ transients \in TransientInputs
  /\ transients.endpoints[2] < audio_len
  /\ centroid \in CentroidInputs
  /\ onsets \in OnsetInputs
  /\ \A i \in 1..Len(onsets) : onsets[i] < audio_len
  /\ strategies = prepare_strategies(pinned)
  /\ params_strategy_id = pinned
  /\ inst = [t \in StrategyTypes |-> NewInstance]
  /\ pc = "idle"
  /\ idx = 1
  /\ loop = NoLoop
  /\ trace = <<>>
  /\ result = NoResult
  /\ crossfaded = FALSE
  /\ calls = 0
  /\ analysis_runs = [t \in StrategyTypes |-> 0]
  /\ first_eval = [t \in StrategyTypes |-> NONE]
  /\ last_eval = [t \in StrategyTypes |-> NONE]
  /\ eval_true = [t \in StrategyTypes |-> FALSE]
  /\ shared_writes = {}
  /\ last = NoCall
  /\ api_calls = 0

\* The parts of the system that take no part in a specification rest in
\* these states.
Conns == {1, 2}
NoMessage == [type |-> NONE, uuid |-> 0, reason |-> NONE]
NoRequest == [conn |-> 0, valid |-> FALSE, full |-> FALSE, enqueued |-> FALSE,
              uuid |-> 0, reply |-> NoMessage]
WorkerIdle == [pc |-> "get", job |-> 0, loop |-> NONE, chunks |-> 0, progressed |-> FALSE]

ServerIdle ==
  /\ max_queue_size = NONE
  /\ queue = <<>>
  /\ conn_state = [c \in Conns |-> "new"]
  /\ sent = [c \in Conns |-> <<>>]
  /\ job_conn = <<>>
  /\ requests = 0
  /\ last_req = NoRequest
  /\ worker = WorkerIdle
  /\ generated = {}
  /\ dequeued_open = {}
  /\ dequeued_closed = {}
  /\ done = {}

NoReceiver == [size |-> 0, checksum |-> <<>>, received_size |-> 0, data |-> <<>>,
               status |-> 0, raised |-> NONE]
ReceiverIdle == receiver = NoReceiver

CliIdle == cli_pc = NONE /\ stored = 0

NoLegacyInput == [beats |-> <<>>, strength |-> 0, tempo_variation |-> 0]
LegacyIdle ==
  /\ legacy_in = NoLegacyInput
  /\ legacy_self = <<>>
  /\ legacy_rets = <<>>

UtilIdle ==
  /\ util_call = NoUtilCall
  /\ util_ret = NoUtilRet
  /\ util_again = NoUtilRet

Init ==
  /\ InitEngine
  /\ UtilIdle
  /\ ServerIdle /\ ReceiverIdle /\ CliIdle /\ LegacyIdle

\* The analysis counter stops at a value that a bounded number of calls
\* cannot exceed.
MaxRuns == 2 * MaxCalls + MaxApiCalls

\* Bookkeeping of one evaluate() call on instance t that ended with ret
\* ("True", "False", "raise", or NONE when no call was made).
Observe(t, st, ret, ran) ==
  /\ inst' = [inst EXCEPT ![t] = st]
  /\ analysis_runs' = [analysis_runs EXCEPT ![t] = IF ran /\ @ < MaxRuns THEN @ + 1 ELSE @]
  /\ first_eval' = [first_eval EXCEPT ![t] =
                      IF @ = NONE /\ ret \in {"True", "False"} THEN ret ELSE @]
  /\ last_eval' = [last_eval EXCEPT ![t] =
                      IF ret \in {"True", "False"} THEN ret ELSE @]
  /\ eval_true' = [eval_true EXCEPT ![t] = @ \/ ret = "True"]

\* ---------------------------------------------- LoopGenerator.generate
Raised(e) == [kind |-> "raise", exc |-> e, len |-> 0, by |-> NONE]
Returned(lp) ==
  IF lp.some
  THEN [kind |-> "loop", exc |-> NONE, len |-> lp.len, by |-> lp.by]
  ELSE [kind |-> "none", exc |-> NONE, len |-> 0, by |-> NONE]

\* generate() is entered: loop = None, the for loop starts.
GenerateEnter ==
  /\ pc = "idle"
  /\ pc' = "iter"
  /\ idx' = 1
  /\ loop' = NoLoop
  /\ trace' = <<>>
  /\ result' = [NoResult EXCEPT !.kind = "pending"]
  /\ crossfaded' = FALSE
  /\ UNCHANGED <<inputs, strategies, params_strategy_id, instvars, apivars, utilvars>>

GenerateBegin ==
  /\ calls < MaxCalls
  /\ GenerateEnter
  /\ calls' = calls + 1
  /\ UNCHANGED sysvars

\* "if strategy.evaluate():" on the current candidate.
EvaluateCandidate ==
  /\ pc = "iter"
  /\ idx <= Len(strategies)
  /\ LET t == strategies[idx]
         ev == Evaluate(t, inst[t], beats, transients, centroid)
     IN /\ Observe(t, ev.st, ev.ret, ev.ran)
        /\ trace' = Append(trace, [op |-> "evaluate", s |-> t, ret |-> ev.ret])
        /\ pc' = IF ev.ret = "raise" THEN "idle"
                 ELSE IF ev.ret = "True" THEN "create" ELSE "iter"
        /\ idx' = IF ev.ret = "False" THEN idx + 1 ELSE idx
        /\ result' = IF ev.ret = "raise" THEN Raised(ev.exc) ELSE result
  /\ UNCHANGED <<inputs, strategies, params_strategy_id, loop, crossfaded, calls, apivars, shared_writes, utilvars, sysvars>>

\* Where generate() continues after a loop was created.
after_create_loop_nobreak(i) == [pc |-> "iter", idx |-> i + 1]

after_create_loop(i) == [pc |-> "post", idx |-> i]     \* break

\* "loop = strategy.create_loop(); params.strategy_id = ...; break".
CreateLoopStep ==
  /\ pc = "create"
  /\ LET t == strategies[idx]
         cr == CreateLoop(t, inst[t], beats, transients, centroid, onsets, audio_len)
     IN /\ Observe(t, cr.st, cr.inner, cr.ran)
        /\ shared_writes' = shared_writes \cup
             CreateLoopWrites(t, inst[t], beats, transients, centroid, onsets, audio_len)
        /\ trace' = Append(trace, [op |-> "create_loop", s |-> t, ret |-> cr.ret])
        /\ IF cr.ret = "raise"
           THEN /\ pc' = "idle"
                /\ result' = Raised(cr.exc)
                /\ UNCHANGED <<idx, loop, params_strategy_id>>
           ELSE /\ pc' = after_create_loop(idx).pc
                /\ idx' = after_create_loop(idx).idx
                /\ loop' = cr.loop
                /\ params_strategy_id' = strategy_id(t)
                /\ UNCHANGED result
  /\ UNCHANGED <<inputs, strategies, crossfaded, calls, apivars, utilvars, sysvars>>

final_crossfade_guard_always(cf, lp) == cf

\* "if self.__crossfade and loop is not None:"
final_crossfade_guard(cf, lp) == cf /\ lp.some

\* The statements after the for loop: the optional final crossfade and the
\* return.  loop.audio_data on None would raise AttributeError.
Finish ==
  /\ \/ pc = "post"
     \/ pc = "iter" /\ idx > Len(strategies)
  /\ IF final_crossfade_guard(crossfade, loop)
     THEN IF ~loop.some
          THEN /\ result' = Raised("AttributeError")
               /\ UNCHANGED crossfaded
          ELSE LET wav == equal_power_crossfade(loop.len, LOOPGEN_CROSSFADE_DURATION_MS)
               IN IF wav.exc # NONE
                  THEN /\ result' = Raised(wav.exc)
                       /\ UNCHANGED crossfaded
                  ELSE /\ result' = Returned([loop EXCEPT !.len = wav.len])
                       /\ crossfaded' = TRUE
     ELSE /\ result' = Returned(loop)
          /\ UNCHANGED crossfaded
  /\ pc' = "idle"
  /\ UNCHANGED <<inputs, strategies, params_strategy_id, idx, loop, trace, calls, instvars, apivars, utilvars, sysvars>>

Next == GenerateBegin \/ EvaluateCandidate \/ CreateLoopStep \/ Finish

Spec == Init /\ [][Next]_vars

\* ------------------------------- direct use of the strategy instances
InitApi == Init /\ pinned = NONE /\ crossfade = TRUE

\* A caller invokes evaluate() on the instance of class t.
CallEvaluate(t) ==
  /\ pc = "idle"
  /\ api_calls < MaxApiCalls
  /\ LET ev == Evaluate(t, inst[t], beats, transients, centroid)
     IN /\ Observe(t, ev.st, ev.ret, ev.ran)
        /\ last' = [op |-> "evaluate", s |-> t, ret |-> ev.ret, exc |-> ev.exc,
                    inner |-> NONE, prior_true |-> eval_true[t],
                    raised |-> ev.raised, loop |-> NoLoop]
  /\ api_calls' = api_calls + 1
  /\ UNCHANGED <<inputs, genvars, shared_writes, utilvars, sysvars>>

\* A caller invokes create_loop() on the instance of class t.
CallCreateLoop(t) ==
  /\ pc = "idle"
  /\ api_calls < MaxApiCalls
  /\ LET cr == CreateLoop(t, inst[t], beats, transients, centroid, onsets, audio_len)
     IN /\ Observe(t, cr.st, cr.inner, cr.ran)
        /\ shared_writes' = shared_writes \cup
             CreateLoopWrites(t, inst[t], beats, transients, centroid, onsets, audio_len)
        /\ last' = [op |-> "create_loop", s |-> t, ret |-> cr.ret, exc |-> cr.exc,
                    inner |-> cr.inner, prior_true |-> eval_true[t],
                    raised |-> cr.raised, loop |-> cr.loop]
  /\ api_calls' = api_calls + 1
  /\ UNCHANGED <<inputs, genvars, utilvars, sysvars>>

NextApi ==
  \/ \E t \in StrategyTypes : CallEvaluate(t)
  \/ \E t \in StrategyTypes : CallCreateLoop(t)

SpecApi == InitApi /\ [][NextApi]_vars

TypeOK ==
  /\ pc \in {"idle", "iter", "create", "post"}
  /\ idx \in 1..(Len(strategies) + 1)
  /\ calls \in 0..MaxCalls
  /\ api_calls \in 0..MaxApiCalls
  /\ result.kind \in {"init", "pending", "loop", "none", "raise"}

\* ------------------------------------------------- util.py: AudioData
\* An array is described by its number of dimensions, its number of rows
\* (channels) when it has two, and one sequence of per-channel samples:
\* the functions modelled below slice every channel alike.
\* AudioData.__init__: stereo means a 2-D array with two rows; any other
\* array gets length len(audio_data), the size of its first dimension.
AudioData(ndim, channels, samples, sample_rate) ==
  LET is_stereo == ndim = 2 /\ channels = 2
      length == IF is_stereo THEN Len(samples)
                ELSE IF ndim = 2 THEN channels ELSE Len(samples)
  IN [ndim |-> ndim, channels |-> channels, samples |-> samples,
      sample_rate |-> sample_rate, is_stereo |-> is_stereo,
      length |-> length, duration |-> (length * 1000) \div sample_rate]

\* x[s:e] of Python for a sequence x (0-based, end exclusive, negative
\* indices counted from the end, out-of-range indices clamped).
PySlice(x, s, e) ==
  LET n  == Len(x)
      s0 == IF s < 0 THEN Max(n + s, 0) ELSE Min(s, n)
      e0 == IF e < 0 THEN Max(n + e, 0) ELSE Min(e, n)
  IN IF s0 >= e0 THEN <<>> ELSE SubSeq(x, s0 + 1, e0)

\* ---------------------------------------- librosa.effects.trim / split
\* One model sample stands for a block of hop_length (512) equal samples,
\* so the analysis frame of 2048 samples spans FrameLength = 4 of them and
\* a frame boundary never falls inside a block.  A sample is an amplitude
\* 0, 1 or 2.  Frames are centred on t * hop_length and the signal is
\* zero-padded.  A frame is non-silent when its level is above -top_db
\* relative to the loudest frame: power * 10^(top_db/10) > loudest power.
\* When every frame has power 0 each frame equals the reference (0 dB)
\* and is non-silent.
HopLength == 1
FrameLength == 4 * HopLength

\* 10^(top_db/10) for the top_db argument of prune_silence (top_db = 6).
TopRatio == 4

FrameCount(x) == 1 + Len(x) \div HopLength

RECURSIVE SumPower(_, _, _)
SumPower(x, lo, hi) ==
  IF lo > hi THEN 0 ELSE x[lo] * x[lo] + SumPower(x, lo + 1, hi)

\* Power of frame t: the samples with 0-based index in
\* [t * hop - frame/2, t * hop + frame/2).
FrameEnergy(x, t) ==
  SumPower(x, Max(1, t * HopLength - FrameLength \div 2 + 1),
              Min(Len(x), t * HopLength + FrameLength \div 2))

\* _signal_to_frame_nonsilent: index t + 1 holds the flag of frame t.
NonSilent(x) ==
  LET powers == { FrameEnergy(x, t) : t \in 0..(FrameCount(x) - 1) }
      loudest == CHOOSE m \in powers : \A e \in powers : e <= m
  IN [t1 \in 1..FrameCount(x) |->
        loudest = 0 \/ FrameEnergy(x, t1 - 1) * TopRatio > loudest]

\* librosa.effects.trim: the samples from the first non-silent frame to
\* the end of the last one.
trim(x) ==
  LET ns == NonSilent(x)
      nz == { t1 \in 1..Len(ns) : ns[t1] }
      first == CHOOSE t1 \in nz : \A u \in nz : t1 <= u
      final == CHOOSE t1 \in nz : \A u \in nz : t1 >= u
  IN IF nz = {} THEN <<>>
     ELSE PySlice(x, (first - 1) * HopLength, Min(Len(x), final * HopLength))

RECURSIVE SplitFrom(_, _, _)
\* The maximal runs of non-silent frames from frame index t1 on, each as
\* <<start, end>> in samples, clipped to the signal length n.
SplitFrom(ns, t1, n) ==
  IF t1 > Len(ns) THEN <<>>
  ELSE IF ~ns[t1] THEN SplitFrom(ns, t1 + 1, n)
  ELSE LET stop == CHOOSE u \in t1..Len(ns) :
                     /\ \A v \in t1..u : ns[v]
                     /\ u = Len(ns) \/ ~ns[u + 1]
       IN <<<<Min((t1 - 1) * HopLength, n), Min(stop * HopLength, n)>>>>
            \o SplitFrom(ns, stop + 1, n)

\* librosa.effects.split
split(x) == SplitFrom(NonSilent(x), 1, Len(x))

\* ------------------------------------------- util.py: prune_silence
InvalidSilenceParams_nokeepsign(keep_silence_ms, min_silence_ms) ==
  min_silence_ms < 0 \/ keep_silence_ms >= min_silence_ms

\* "if keep_silence_ms < 0 or min_silence_ms < 0 or
\*     keep_silence_ms >= min_silence_ms: raise ValueError"
InvalidSilenceParams(keep_silence_ms, min_silence_ms) ==
  keep_silence_ms < 0 \/ min_silence_ms < 0 \/ keep_silence_ms >= min_silence_ms

IsLongSilence_any(start, prev_end, min_silence) == start - prev_end > 0

\* "if start - prev_end > min_silence": the gap is cut down to keep_silence.
IsLongSilence(start, prev_end, min_silence) == start - prev_end > min_silence

KeptStart_nomargin(start, keep_silence) == start

\* "filtered_intervals.append((start - keep_silence, end))"
KeptStart(start, keep_silence) == start - keep_silence

RECURSIVE FilterIntervals(_, _, _, _, _)
\* The loop over non_silent_intervals building filtered_intervals (acc).
\* filtered_intervals[-1] on the empty list raises IndexError.
FilterIntervals(ivs, i, acc, min_silence, keep_silence) ==
  IF i > Len(ivs) THEN [exc |-> NONE, list |-> acc]
  ELSE LET start == ivs[i][1]
           end == ivs[i][2]
           prev_end == IF Len(acc) > 0 THEN acc[Len(acc)][2] ELSE 0
       IN IF start > 0
          THEN IF IsLongSilence(start, prev_end, min_silence)
               THEN FilterIntervals(ivs, i + 1, Append(acc, <<KeptStart(start, keep_silence), end>>),
                                    min_silence, keep_silence)
               ELSE IF Len(acc) = 0
               THEN [exc |-> "IndexError", list |-> acc]
               ELSE FilterIntervals(ivs, i + 1,
                                    [acc EXCEPT ![Len(acc)] = <<acc[Len(acc)][1], end>>],
                                    min_silence, keep_silence)
          ELSE FilterIntervals(ivs, i + 1, Append(acc, <<0, end>>), min_silence, keep_silence)

RECURSIVE ConcatSlices(_, _, _)
\* np.concatenate of audio_data[c, start:end] over the kept intervals.
ConcatSlices(x, ivs, i) ==
  IF i > Len(ivs) THEN <<>>
  ELSE PySlice(x, ivs[i][1], ivs[i][2]) \o ConcatSlices(x, ivs, i + 1)

PruneRaise(e, trimmed) ==
  [kind |-> "raise", exc |-> e, trimmed |-> trimmed, audio |-> NONE, input_len |-> 0,
   intervals |-> <<>>, kept |-> <<>>, trimmed_len |-> 0]

\* prune_silence(audio, min_silence_ms, keep_silence_ms).  trimmed tells
\* whether librosa.effects.trim was reached.  The chunks are read with
\* audio_data[0, start:end], which needs a 2-D array, and are stacked, so
\* the result is always 2-D.
prune_silence(audio, min_silence_ms, keep_silence_ms) ==
  IF InvalidSilenceParams(keep_silence_ms, min_silence_ms)
  THEN PruneRaise("InvalidSilenceParams", FALSE)
  ELSE LET audio_data == trim(audio.samples)
           min_silence == (audio.sample_rate * min_silence_ms) \div 1000
           keep_silence == (audio.sample_rate * keep_silence_ms) \div 1000
           f == FilterIntervals(split(audio_data), 1, <<>>, min_silence, keep_silence)
       IN IF f.exc # NONE THEN PruneRaise(f.exc, TRUE)
          ELSE IF Len(f.list) > 0 /\ audio.ndim = 1 THEN PruneRaise("IndexError", TRUE)
          ELSE IF Len(f.list) = 0 THEN PruneRaise("EmptyConcatenate", TRUE)
          ELSE [kind |-> "audio", exc |-> NONE, trimmed |-> TRUE,
                audio |-> AudioData(2, audio.channels,
                                    ConcatSlices(audio_data, f.list, 1),
                                    audio.sample_rate),
                input_len |-> Len(audio.samples),
                intervals |-> split(audio_data), kept |-> f.list,
                trimmed_len |-> Len(audio_data)]

\* ------------------------------------- util.py: nearest_zero_crossing
\* Python element audio_data[i] of the sequence a.
At(a, i) == a[i + 1]

IsCrossing_strict(a, i) == At(a, i) * At(a, i - 1) < 0

\* "audio_data[i] * audio_data[i-1] <= 0"
IsCrossing(a, i) == At(a, i) * At(a, i - 1) <= 0

ZeroCrossingPick_right(a, i) == i

\* "index = i if abs(audio_data[i]) < abs(audio_data[i-1]) else i-1"
ZeroCrossingPick(a, i) ==
  IF Abs(At(a, i)) < Abs(At(a, i - 1)) THEN i ELSE i - 1

nearest_zero_crossing(audio_data, start_index) ==
  LET n == Len(audio_data)
      start == IF start_index > 0 THEN start_index ELSE 1
      fwd == { i \in start..(n - 1) : IsCrossing(audio_data, i) }
      i0 == CHOOSE i \in fwd : \A j \in fwd : i <= j
      index == IF fwd = {} THEN -1 ELSE ZeroCrossingPick(audio_data, i0)
      dist == IF fwd = {} THEN -1 ELSE i0 - start_index
      \* the backward loop ends at the first i (descending) that is too
      \* far away or is a crossing
      ends == { i \in 1..(start - 1) :
                  (dist >= 0 /\ start_index - i >= dist) \/ IsCrossing(audio_data, i) }
      i1 == CHOOSE i \in ends : \A j \in ends : i >= j
  IN IF start_index >= n THEN -1
     ELSE IF start > 1 /\ ends # {} /\ ~(dist >= 0 /\ start_index - i1 >= dist)
     THEN ZeroCrossingPick(audio_data, i1)
     ELSE index

\* ------------------- util.py: spectral_similarity / find_similar_endpoints
\* Similarities are in tenths: the default threshold 0.8 is 8.
SIMILARITY_THRESHOLD == 8
DEFAULT_MAX_FRAMES == 120

\* "frame_length = int(2048 * (sample_rate / 44100))", in blocks.
SimFrameLength == 1

\* "librosa.frames_to_samples(frames[i])"
frames_to_samples(frame) == frame * HopLength

\* spectral_similarity: ValueError when either window is shorter than
\* frame_length, otherwise the correlation of the two windows, which the
\* table sim gives per (start, end).
spectral_similarity(audio_data, start, end, sim) ==
  IF Len(PySlice(audio_data, start, start + SimFrameLength)) < SimFrameLength
     \/ Len(PySlice(audio_data, end - SimFrameLength, end)) < SimFrameLength
  THEN [exc |-> "ValueError", similarity |-> 0]
  ELSE [exc |-> NONE, similarity |-> sim[<<start, end>>]]

SimilarityExceeds_atleast(similarity, threshold) == similarity >= threshold

\* "if similarity > threshold"
SimilarityExceeds(similarity, threshold) == similarity > threshold

NotFound == <<-1, -1>>

\* The inner loop over candidate ends for one start: the pair it returns,
\* or none when it ends without returning.
NoPair == [found |-> FALSE, pair |-> NotFound]
RECURSIVE FindEnd(_, _, _, _, _, _, _, _)
FindEnd(audio_data, frames, sim, threshold, max_frames, i, j, start) ==
  IF j >= Min(Len(frames) - 1 - i, max_frames) THEN NoPair
  ELSE LET end_index == Len(frames) - 1 - j
           end == nearest_zero_crossing(audio_data, frames_to_samples(At(frames, end_index)))
           similarity == spectral_similarity(audio_data, start, end, sim)
       IN IF end < 0 THEN NoPair
          ELSE IF similarity.exc # NONE THEN NoPair
          ELSE IF SimilarityExceeds(similarity.similarity, threshold)
               THEN [found |-> TRUE, pair |-> <<start, end>>]
          ELSE FindEnd(audio_data, frames, sim, threshold, max_frames, i, j + 1, start)

\* The outer loop over candidate starts.
RECURSIVE FindStart(_, _, _, _, _, _)
FindStart(audio_data, frames, sim, threshold, max_frames, i) ==
  IF i >= Min(Len(frames) - 1, max_frames) THEN NotFound
  ELSE LET start == nearest_zero_crossing(audio_data, frames_to_samples(At(frames, i)))
           found == FindEnd(audio_data, frames, sim, threshold, max_frames, i, 0, start)
       IN IF start < 0 THEN NotFound
          ELSE IF found.found THEN found.pair
          ELSE FindStart(audio_data, frames, sim, threshold, max_frames, i + 1)

find_similar_endpoints(audio_data, frames, sim, threshold, max_frames) ==
  FindStart(audio_data, frames, sim, threshold, max_frames, 0)

\* ------------------------- util.py: crossfade / equal_power_crossfade
\* A blended sample end * fade_out + start * fade_in, kept symbolic: it is
\* a value no input sample (an identifier below 100) has.
Blend(end_sample, start_sample) == 100 * end_sample + start_sample

\* Both single-buffer crossfades: the size check, the two faded slices
\* [-N:] and [:N], and np.concatenate([audio_data[:, :-N], region]).
\* With N = 0 the slice [-0:] is the whole array, which cannot be
\* multiplied by the empty ramp (ValueError from numpy).
crossfade_array(x, sample_rate, crossfade_duration_ms) ==
  LET crossfade_samples == (sample_rate * crossfade_duration_ms) \div 1000
      n == Len(x)
  IN IF crossfade_samples >= n \div 2
     THEN [kind |-> "raise", exc |-> "CrossfadeTooLong", samples |-> <<>>]
     ELSE IF crossfade_samples = 0
     THEN [kind |-> "raise", exc |-> "BroadcastError", samples |-> <<>>]
     ELSE [kind |-> "array", exc |-> NONE,
           samples |-> PySlice(x, 0, n - crossfade_samples) \o
                       [j \in 1..crossfade_samples |->
                          Blend(x[n - crossfade_samples + j], x[j])]]

\* ------------------------------------------- calls of util.py functions
SilenceMs == {-100, 0, 100, 200, 300}
BufferShapes == { <<1, 1>>, <<2, 1>>, <<2, 2>> }   \* <<ndim, channels>>
Amplitudes == {0, 1, 2}
\* Two bursts separated by a longer silence than MaxSamples allows.
GapSeqs ==
  { [i \in 1..n |-> IF i = 1 \/ i = n THEN 2 ELSE 0] :
      n \in (MaxSamples + 1)..(MaxSamples + 3) }
LoudnessSeqs == UNION { [1..n -> Amplitudes] : n \in 1..MaxSamples } \cup GapSeqs
SampleValues == {-2, -1, 0, 1, 2}
CrossArrays == UNION { [1..n -> SampleValues] : n \in 2..MaxCrossLen }
FadeMs == {0, 100, 200, 300, 400}

\* Inputs of find_similar_endpoints: a buffer of SimLen samples of equal
\* magnitude starting with a positive one (a crossing is then reported at
\* its left sample, an index in 0..SimLen - 2), increasing transient frames
\* up to the end of the buffer, and a similarity for every pair of snapped
\* indices whose windows are long enough.
SimLen == 4
SimArrays == { a \in [1..SimLen -> {-1, 1}] : a[1] = 1 }
RECURSIVE Ascending(_)
Ascending(S) ==
  IF S = {} THEN <<>>
  ELSE LET m == CHOOSE x \in S : \A y \in S : x <= y
       IN <<m>> \o Ascending(S \ {m})
FrameSeqs == { Ascending(S) : S \in SUBSET (0..SimLen) }
SimValues == {8, 9}
SimTables == [(0..(SimLen - 2)) \X (SimFrameLength..(SimLen - 2)) -> SimValues]
MaxFrames == {2, DEFAULT_MAX_FRAMES}

\* Beat lists as the beat tracker reports them: beat number i at time i,
\* labels counting 1..meter cyclically from any position in the bar.
MaxBeats == 13
Meters == {3, 4}
BeatLists ==
  { [i \in 1..n |-> [time |-> i - 1, label |-> ((first + i - 2) % meter) + 1]] :
      n \in 0..MaxBeats, meter \in Meters, first \in 1..4 }

\* Calls of the two loop point searches.
PointCalls ==
  { [fn |-> "find_similar_endpoints", audio_data |-> a, frames |-> fr,
     sim |-> t, max_frames |-> mf] :
      a \in SimArrays, fr \in FrameSeqs, t \in SimTables, mf \in MaxFrames }
  \cup
  { [fn |-> "__get_loop_points", beat_list |-> b] : b \in BeatLists }

UtilCalls ==
  { [fn |-> "prune_silence", ndim |-> sh[1], channels |-> sh[2], samples |-> x,
     min_silence_ms |-> m, keep_silence_ms |-> k] :
      sh \in BufferShapes, x \in LoudnessSeqs, m \in SilenceMs, k \in SilenceMs }
  \cup
  { [fn |-> "nearest_zero_crossing", audio_data |-> a, start_index |-> i] :
      a \in CrossArrays, i \in -1..MaxCrossLen }
  \cup
  { [fn |-> f, samples |-> [i \in 1..n |-> i], crossfade_duration_ms |-> ms] :
      f \in {"crossfade", "equal_power_crossfade"}, n \in 2..MaxSamples, ms \in FadeMs }
  \cup
  { [fn |-> "AudioData", ndim |-> sh[1], channels |-> sh[2], samples |-> [i \in 1..n |-> i]] :
      sh \in BufferShapes, n \in 1..MaxSamples }

\* The engine is idle while a util.py function is exercised.
InitUtil ==
  /\ InitEngine
  /\ pinned = NONE /\ crossfade = TRUE /\ audio_len = 24 /\ onsets = <<>>
  /\ beats = [exc |-> NONE, downbeats |-> <<>>]
  /\ transients = [exc |-> NONE, count |-> 1, threshold |-> 8, endpoints |-> <<-1, -1>>]
  /\ centroid = [exc |-> NONE, variance |-> 1000]
  /\ util_call \in UtilCalls
  /\ util_ret = NoUtilRet
  /\ util_again = NoUtilRet
  /\ ServerIdle /\ ReceiverIdle /\ CliIdle /\ LegacyIdle

UtilFrame == UNCHANGED <<inputs, genvars, instvars, apivars, util_call, sysvars>>

CallPruneSilence ==
  /\ util_call.fn = "prune_silence"
  /\ util_ret = NoUtilRet
  /\ util_ret' = prune_silence(
       AudioData(util_call.ndim, util_call.channels, util_call.samples, SampleRate),
       util_call.min_silence_ms, util_call.keep_silence_ms)
  /\ UNCHANGED util_again
  /\ UtilFrame

\* prune_silence on the buffer the first call returned, same parameters.
CallPruneSilenceAgain ==
  /\ util_call.fn = "prune_silence"
  /\ util_ret # NoUtilRet
  /\ util_ret.kind = "audio"
  /\ util_again = NoUtilRet
  /\ util_again' = prune_silence(util_ret.audio,
       util_call.min_silence_ms, util_call.keep_silence_ms)
  /\ UNCHANGED util_ret
  /\ UtilFrame

CallNearestZeroCrossing ==
  /\ util_call.fn = "nearest_zero_crossing"
  /\ util_ret = NoUtilRet
  /\ util_ret' = [kind |-> "index",
                  index |-> nearest_zero_crossing(util_call.audio_data, util_call.start_index)]
  /\ UNCHANGED util_again
  /\ UtilFrame

CallFindSimilarEndpoints ==
  /\ util_call.fn = "find_similar_endpoints"
  /\ util_ret = NoUtilRet
  /\ util_ret' = [kind |-> "endpoints",
                  endpoints |-> find_similar_endpoints(
                    util_call.audio_data, util_call.frames, util_call.sim,
                    SIMILARITY_THRESHOLD, util_call.max_frames)]
  /\ UNCHANGED util_again
  /\ UtilFrame

CallGetLoopPoints ==
  /\ util_call.fn = "__get_loop_points"
  /\ util_ret = NoUtilRet
  /\ util_ret' = [kind |-> "loop_points",
                  points |-> get_loop_points(DownbeatTimes(util_call.beat_list))]
  /\ UNCHANGED util_again
  /\ UtilFrame

CallCrossfade ==
  /\ util_call.fn = "crossfade"
  /\ util_ret = NoUtilRet
  /\ util_ret' = crossfade_array(util_call.samples, SampleRate, util_call.crossfade_duration_ms)
  /\ UNCHANGED util_again
  /\ UtilFrame

CallEqualPowerCrossfade ==
  /\ util_call.fn = "equal_power_crossfade"
  /\ util_ret = NoUtilRet
  /\ util_ret' = crossfade_array(util_call.samples, SampleRate, util_call.crossfade_duration_ms)
  /\ UNCHANGED util_again
  /\ UtilFrame

CallAudioData ==
  /\ util_call.fn = "AudioData"
  /\ util_ret = NoUtilRet
  /\ util_ret' = [kind |-> "AudioData",
                  audio |-> AudioData(util_call.ndim, util_call.channels,
                                      util_call.samples, SampleRate)]
  /\ UNCHANGED util_again
  /\ UtilFrame

NextUtil ==
  \/ CallPruneSilence
  \/ CallPruneSilenceAgain
  \/ CallNearestZeroCrossing
  \/ CallCrossfade
  \/ CallEqualPowerCrossfade
  \/ CallAudioData

SpecUtil == InitUtil /\ [][NextUtil]_vars

\* The loop point searches, exercised the same way.
InitPoints ==
  /\ InitEngine
  /\ pinned = NONE /\ crossfade = TRUE /\ audio_len = 24 /\ onsets = <<>>
  /\ beats = [exc |-> NONE, downbeats |-> <<>>]
  /\ transients = [exc |-> NONE, count |-> 1, threshold |-> 8, endpoints |-> <<-1, -1>>]
  /\ centroid = [exc |-> NONE, variance |-> 1000]
  /\ util_call \in PointCalls
  /\ util_ret = NoUtilRet
  /\ util_again = NoUtilRet
  /\ ServerIdle /\ ReceiverIdle /\ CliIdle /\ LegacyIdle

NextPoints ==
  \/ CallFindSimilarEndpoints
  \/ CallGetLoopPoints

SpecPoints == InitPoints /\ [][NextPoints]_vars

\* The engine with one fixed input, at rest while another part runs.
EngineAtRest ==
  /\ InitEngine
  /\ pinned = NONE /\ crossfade = TRUE /\ audio_len = 24 /\ onsets = <<>>
  /\ beats = [exc |-> NONE, downbeats |-> <<>>]
  /\ transients = [exc |-> NONE, count |-> 1, threshold |-> 8, endpoints |-> <<-1, -1>>]
  /\ centroid = [exc |-> NONE, variance |-> 1000]

EngineFrame == UNCHANGED <<inputs, genvars, instvars, apivars, utilvars>>

\* ------------------------------------------------------------ server.py
MaxRequests == 2
DEFAULT_MAX_QUEUE_SIZE == 100

\* The max_queue_size argument: left out, None, or an integer.
QueueSizeArgs ==
  { [kind |-> "missing", value |-> 0], [kind |-> "None", value |-> 0] }
    \cup { [kind |-> "int", value |-> v] : v \in {-1, 0, 1} }

\* "maxsize=max_queue_size if max_queue_size and max_queue_size > 0 else 100"
\* with the parameter default "max_queue_size: int = 100".
EffectiveQueueSize(arg) ==
  IF arg.kind = "missing" THEN DEFAULT_MAX_QUEUE_SIZE
  ELSE IF arg.kind = "int" /\ arg.value # 0 /\ arg.value > 0 THEN arg.value
  ELSE 100

Message(type, uuid, reason) == [type |-> type, uuid |-> uuid, reason |-> reason]
FULL_MESSAGE == Message("rejected", 0, "FULL")
INVALID_REQUEST_MESSAGE == Message("rejected", 0, "INVALID")
AcceptedMessage(uuid) == Message("accepted", uuid, NONE)
ProgressMessage(uuid) == Message("progress", uuid, NONE)
FailureMessage(uuid) == Message("error", uuid, "FAIL")
SuccessMessage(uuid) == Message("success", uuid, NONE)
\* A chunk of the serialized audio; the uuid tells whose audio it is.
ChunkMessage(uuid) == Message("chunk", uuid, NONE)

\* LoopGenClientConnection.connected
Connected(states, c) == states[c] = "open"

\* LoopGenClientConnection.__send: nothing is sent unless connected.
Send(messages, states, c, message) ==
  IF ~Connected(states, c) THEN messages
  ELSE [messages EXCEPT ![c] = Append(@, message)]

\* queue.Queue.put_nowait raises queue.Full when the queue holds maxsize
\* items.
QueueIsFull(q, maxsize) == Len(q) >= maxsize

ServerFrame == EngineFrame /\ UNCHANGED <<receiver, clivars, legvars>>

\* listen() starts: "self.__connected = True".
Connect(c) ==
  /\ conn_state[c] = "new"
  /\ conn_state' = [conn_state EXCEPT ![c] = "open"]
  /\ UNCHANGED <<max_queue_size, queue, sent, job_conn, requests, last_req, worker,
                 generated, dequeued_open, dequeued_closed, done>>
  /\ ServerFrame

\* The websocket iteration ends (the client closed the connection, or the
\* connection failed): the finally block sets __connected = False.
Disconnect(c) ==
  /\ conn_state[c] = "open"
  /\ conn_state' = [conn_state EXCEPT ![c] = "closed"]
  /\ UNCHANGED <<max_queue_size, queue, sent, job_conn, requests, last_req, worker,
                 generated, dequeued_open, dequeued_closed, done>>
  /\ ServerFrame

\* "await self.__send(MESSAGE)" inside listen(): __send schedules the
\* message on the event loop and returns None, awaiting None raises
\* TypeError, which leaves the loop over the websocket, and the finally
\* block closes the connection.  The scheduled message is written only if
\* the event loop runs it before the close has started.
RejectAndLeave(c, message, valid, full, uuid) ==
  \E delivered \in BOOLEAN :
    /\ sent' = IF delivered THEN Send(sent, conn_state, c, message) ELSE sent
    /\ conn_state' = [conn_state EXCEPT ![c] = "closed"]
    /\ last_req' = [conn |-> c, valid |-> valid, full |-> full, enqueued |-> FALSE,
                    uuid |-> uuid,
                    reply |-> IF delivered THEN message ELSE NoMessage]

\* One message read by listen(): the body of the "async for" loop.
ReceiveRequest(c, valid) ==
  /\ Connected(conn_state, c)
  /\ requests < MaxRequests
  /\ requests' = requests + 1
  /\ IF ~valid
     THEN \* json.loads or __create_job raised
          /\ RejectAndLeave(c, INVALID_REQUEST_MESSAGE, FALSE,
                            QueueIsFull(queue, EffectiveQueueSize(max_queue_size)), 0)
          /\ UNCHANGED <<queue, job_conn>>
     ELSE LET uuid == Len(job_conn) + 1
          IN /\ job_conn' = Append(job_conn, c)
             /\ IF QueueIsFull(queue, EffectiveQueueSize(max_queue_size))
                THEN /\ RejectAndLeave(c, FULL_MESSAGE, TRUE, TRUE, uuid)
                     /\ UNCHANGED queue
                ELSE /\ queue' = Append(queue, uuid)
                     /\ sent' = [sent EXCEPT ![c] = Append(@, AcceptedMessage(uuid))]
                     /\ last_req' = [conn |-> c, valid |-> TRUE, full |-> FALSE,
                                     enqueued |-> TRUE, uuid |-> uuid,
                                     reply |-> AcceptedMessage(uuid)]
                     /\ UNCHANGED conn_state
  /\ UNCHANGED <<max_queue_size, worker, generated, dequeued_open, dequeued_closed, done>>
  /\ ServerFrame

JobSkipped_never(states, c) == FALSE

\* "if job.connection is None or not job.connection.connected:"
JobSkipped(states, c) == ~Connected(states, c)

\* "job = self.__queue.get()" and the connection test.
WorkerGet ==
  /\ worker.pc = "get"
  /\ queue # <<>>
  /\ LET job == Head(queue)
         c == job_conn[job]
     IN /\ queue' = Tail(queue)
        /\ dequeued_open' = IF Connected(conn_state, c)
                            THEN dequeued_open \cup {job} ELSE dequeued_open
        /\ dequeued_closed' = IF Connected(conn_state, c)
                              THEN dequeued_closed ELSE dequeued_closed \cup {job}
        /\ IF JobSkipped(conn_state, c)
           THEN /\ done' = done \cup {job}
                /\ UNCHANGED worker
           ELSE /\ worker' = [WorkerIdle EXCEPT !.pc = "generate", !.job = job]
                /\ UNCHANGED done
  /\ UNCHANGED <<max_queue_size, conn_state, sent, job_conn, requests, last_req, generated>>
  /\ ServerFrame

\* progress_callback during audiogen.generate().
WorkerProgress ==
  /\ worker.pc = "generate"
  /\ ~worker.progressed
  /\ worker' = [worker EXCEPT !.progressed = TRUE]
  /\ generated' = generated \cup {worker.job}
  /\ sent' = Send(sent, conn_state, job_conn[worker.job], ProgressMessage(worker.job))
  /\ UNCHANGED <<max_queue_size, queue, conn_state, job_conn, requests, last_req,
                 dequeued_open, dequeued_closed, done>>
  /\ ServerFrame

\* What audiogen.generate() followed by LoopGenerator(...).generate() gives:
\* a loop (sent in LoopChunks chunks of 1024 bytes), None, or an exception.
GenerationOutcomes == {"loop", "none", "raise"}
LoopChunks == 2
ChunksOf(outcome) == IF outcome = "loop" THEN LoopChunks ELSE 0

\* success(job, loop) raises before it sends anything when loop is None
\* (AudioData.serialize reads audio.is_stereo).
SuccessRaises(outcome) == outcome = "none"

\* The try block of __job_worker up to the first message of success().
WorkerGenerate(outcome) ==
  /\ worker.pc = "generate"
  /\ generated' = generated \cup {worker.job}
  /\ worker' = [worker EXCEPT
                  !.pc = IF outcome = "raise" \/ SuccessRaises(outcome)
                         THEN "failure" ELSE "success",
                  !.loop = outcome, !.chunks = ChunksOf(outcome)]
  /\ UNCHANGED <<max_queue_size, queue, conn_state, sent, job_conn, requests, last_req,
                 dequeued_open, dequeued_closed, done>>
  /\ ServerFrame

\* success(): the "success" message.
WorkerSendSuccess ==
  /\ worker.pc = "success"
  /\ sent' = Send(sent, conn_state, job_conn[worker.job], SuccessMessage(worker.job))
  /\ worker' = [worker EXCEPT !.pc = "chunks"]
  /\ UNCHANGED <<max_queue_size, queue, conn_state, job_conn, requests, last_req,
                 generated, dequeued_open, dequeued_closed, done>>
  /\ ServerFrame

\* success(): one chunk of the audio; after the last one, task_done().
WorkerSendChunk ==
  /\ worker.pc = "chunks"
  /\ worker.chunks > 0
  /\ sent' = Send(sent, conn_state, job_conn[worker.job], ChunkMessage(worker.job))
  /\ IF worker.chunks = 1
     THEN /\ worker' = WorkerIdle
          /\ done' = done \cup {worker.job}
     ELSE /\ worker' = [worker EXCEPT !.chunks = @ - 1]
          /\ UNCHANGED done
  /\ UNCHANGED <<max_queue_size, queue, conn_state, job_conn, requests, last_req,
                 generated, dequeued_open, dequeued_closed>>
  /\ ServerFrame

\* "except Exception: job.connection.failure(job)", then task_done().
WorkerSendFailure ==
  /\ worker.pc = "failure"
  /\ sent' = Send(sent, conn_state, job_conn[worker.job], FailureMessage(worker.job))
  /\ worker' = WorkerIdle
  /\ done' = done \cup {worker.job}
  /\ UNCHANGED <<max_queue_size, queue, conn_state, job_conn, requests, last_req,
                 generated, dequeued_open, dequeued_closed>>
  /\ ServerFrame

InitServer ==
  /\ EngineAtRest
  /\ UtilIdle
  /\ ServerIdle!2 /\ ServerIdle!3 /\ ServerIdle!4 /\ ServerIdle!5 /\ ServerIdle!6
  /\ ServerIdle!7 /\ ServerIdle!8 /\ ServerIdle!9 /\ ServerIdle!10 /\ ServerIdle!11
  /\ ServerIdle!12
  /\ max_queue_size \in QueueSizeArgs
  /\ ReceiverIdle /\ CliIdle /\ LegacyIdle

NextServer ==
  \/ \E c \in Conns : Connect(c)
  \/ \E c \in Conns : Disconnect(c)
  \/ \E c \in Conns, valid \in BOOLEAN : ReceiveRequest(c, valid)
  \/ WorkerGet
  \/ WorkerProgress
  \/ \E outcome \in GenerationOutcomes : WorkerGenerate(outcome)
  \/ WorkerSendSuccess
  \/ WorkerSendChunk
  \/ WorkerSendFailure

SpecServer == InitServer /\ [][NextServer]_vars

\* ------------------------------------------------ client.py: DataReceiver
MaxSize == 3
Bytes == {0, 1}
ByteSeqs == UNION { [1..n -> Bytes] : n \in 0..MaxSize }
Chunks == UNION { [1..n -> Bytes] : n \in 0..2 }

\* hashlib.md5(data).hexdigest(): different data, different digest.
calculate_checksum(data) == <<"md5", data>>

\* DataReceiver.__init__
DataReceiver(checksum, size) ==
  [size |-> size, checksum |-> checksum, received_size |-> 0, data |-> <<>>,
   status |-> 0, raised |-> NONE]

\* DataReceiver.receive; raised is the exception the call ended with.
receive(self, chunk) ==
  LET chunk_size == Len(chunk)
  IN IF self.received_size + chunk_size > self.size
     THEN [self EXCEPT !.status = -1, !.raised = "ValueError"]
     ELSE LET got == [self EXCEPT !.received_size = @ + chunk_size,
                                  !.data = @ \o chunk, !.raised = NONE]
          IN IF got.received_size = got.size
             THEN IF got.checksum # calculate_checksum(got.data)
                  THEN [got EXCEPT !.status = -1, !.raised = "ValueError"]
                  ELSE [got EXCEPT !.status = 1]
             ELSE got

InitReceiver ==
  /\ EngineAtRest
  /\ UtilIdle
  /\ ServerIdle /\ CliIdle /\ LegacyIdle
  /\ \E size \in 1..MaxSize, data \in ByteSeqs :
       receiver = DataReceiver(calculate_checksum(data), size)

\* A caller hands the next binary message to the receiver.
Receive(chunk) ==
  /\ receiver' = receive(receiver, chunk)
  /\ EngineFrame
  /\ UNCHANGED <<srvvars, clivars, legvars>>

NextReceiver == \E chunk \in Chunks : Receive(chunk)

SpecReceiver == InitReceiver /\ [][NextReceiver]_vars

\* ------------------------------------------ cli.py: the generate command
\* The command after "loopgen = LoopGenerator(AudioData(audio_data, sr), params)".
InitCli ==
  /\ InitEngine
  /\ pinned = NONE /\ crossfade = TRUE
  /\ UtilIdle
  /\ ServerIdle /\ ReceiverIdle /\ LegacyIdle
  /\ cli_pc = "call"
  /\ stored = 0

\* "while not loop: loop = loopgen.generate()": generate() is entered.  The
\* call counter stops counting at MaxCalls.
CliCallGenerate ==
  /\ cli_pc = "call"
  /\ GenerateEnter
  /\ calls' = IF calls < MaxCalls THEN calls + 1 ELSE calls
  /\ cli_pc' = "wait"
  /\ UNCHANGED <<stored, srvvars, receiver, legvars>>

\* generate() has returned or raised: "if loop: audio_store.store(loop,
\* params)" and the loop ends, "else" the while loop goes round again; an
\* exception ends the command.
CliHandleResult ==
  /\ cli_pc = "wait"
  /\ pc = "idle"
  /\ IF result.kind = "loop"
     THEN cli_pc' = "done" /\ stored' = stored + 1
     ELSE IF result.kind = "none"
     THEN cli_pc' = "call" /\ UNCHANGED stored
     ELSE cli_pc' = "crashed" /\ UNCHANGED stored
  /\ EngineFrame
  /\ UNCHANGED <<srvvars, receiver, legvars>>

NextCli ==
  \/ CliCallGenerate
  \/ EvaluateCandidate
  \/ CreateLoopStep
  \/ Finish
  \/ CliHandleResult

\* The command is one sequential program: it always takes its next step.
SpecCli == InitCli /\ [][NextCli]_vars /\ WF_vars(NextCli)

\* ------------------------- loopgen/loop_strategies: the legacy BeatAligned
\* Beat strengths and tempo variations are in tenths.
SUB_SEGMENT_DURATION == 3000
MAX_TEMPO_VARIATION == 75
BEAT_SALIENCE_THRESHOLD == 5

MaxLegacyCalls == 3
LegacySampleRate == 1000
LegacyBeats == {<<>>, <<0>>, <<1>>, <<0, 4>>}
LegacyStrengths == {BEAT_SALIENCE_THRESHOLD, BEAT_SALIENCE_THRESHOLD + 1}
LegacyVariations == {MAX_TEMPO_VARIATION, MAX_TEMPO_VARIATION + 1}
LegacyLengths == {3000, 6000}
LegacyMinDurations == {3, 5}

\* "self.__name" written inside "class cls" is the attribute _cls__name.
Mangle(cls, name) == <<cls, name>>
HasAttr(self, cls, name) == Mangle(cls, name) \in DOMAIN self
GetAttr(self, cls, name) == self[Mangle(cls, name)]
SetAttr(self, cls, name, value) ==
  [k \in DOMAIN self \cup {Mangle(cls, name)} |->
     IF k = Mangle(cls, name) THEN value ELSE self[k]]

\* LoopStrategy.__init__ (mono audio) followed by BeatAligned.__init__.
LoopStrategyInit(audio_length, sample_rate, min_loop_ms) ==
  (Mangle("LoopStrategy", "audio_data") :> "ndarray")
  @@ (Mangle("LoopStrategy", "is_stereo") :> FALSE)
  @@ (Mangle("LoopStrategy", "audio_length") :> audio_length)
  @@ (Mangle("LoopStrategy", "sample_rate") :> sample_rate)
  @@ (Mangle("LoopStrategy", "min_loop_duration") :> min_loop_ms)
  @@ (Mangle("LoopStrategy", "audio_duration") :>
        ((audio_length * 1000) \div sample_rate))

BeatAlignedInit(audio_length, sample_rate, min_loop_ms) ==
  SetAttr(SetAttr(SetAttr(
    LoopStrategyInit(audio_length, sample_rate, min_loop_ms),
    "BeatAligned", "loop_start", -1),
    "BeatAligned", "loop_end", -1),
    "BeatAligned", "evaluated", FALSE)

LegacyReturn(self, val) == [exc |-> NONE, val |-> val, self |-> self]
LegacyRaise(self, e) == [exc |-> e, val |-> FALSE, self |-> self]

\* "not beats or not beats.size" for a numpy array: an array of more than
\* one element has no truth value.
BeatsTruth(beat_frames) ==
  IF Len(beat_frames) > 1 THEN Raise("ValueError")
  ELSE Ok(IF Len(beat_frames) = 1 /\ beat_frames[1] # 0 THEN 1 ELSE 0)

\* BeatAligned.__beat_salience
beat_salience(self, analysis) ==
  IF \E name \in {"audio_data", "is_stereo", "sample_rate"} :
       ~HasAttr(self, "BeatAligned", name)
  THEN LegacyRaise(self, "AttributeError")
  ELSE LET truth == BeatsTruth(analysis.beats) IN
    IF truth.exc # NONE THEN LegacyRaise(self, truth.exc)
    ELSE IF truth.len = 0 \/ Len(analysis.beats) = 0
    THEN LegacyReturn(self, FALSE)
    ELSE IF analysis.strength > BEAT_SALIENCE_THRESHOLD
    THEN IF ~HasAttr(self, "BeatAligned", "min_loop_duration")
         THEN LegacyRaise(self, "AttributeError")
         ELSE LET loop_start == frames_to_samples(Head(analysis.beats))
                  loop_end == frames_to_samples(
                                analysis.beats[Len(analysis.beats)])
                  min_loop_samples ==
                    (GetAttr(self, "BeatAligned", "min_loop_duration")
                       * GetAttr(self, "BeatAligned", "sample_rate")) \div 1000
                  suitable == loop_end - loop_start >= min_loop_samples
              IN LegacyReturn(
                   IF suitable
                   THEN SetAttr(SetAttr(self, "BeatAligned", "loop_start",
                                        loop_start),
                                "BeatAligned", "loop_end", loop_end)
                   ELSE self,
                   suitable)
    ELSE LegacyReturn(self, FALSE)

\* BeatAligned.__tempo_stability
tempo_stability(self, analysis) ==
  IF ~HasAttr(self, "BeatAligned", "audio_duration")
  THEN LegacyRaise(self, "AttributeError")
  ELSE LET segments_count ==
             GetAttr(self, "BeatAligned", "audio_duration")
               \div SUB_SEGMENT_DURATION
       IN IF segments_count > 1
          THEN IF ~HasAttr(self, "BeatAligned", "audio_length")
               THEN LegacyRaise(self, "AttributeError")
               ELSE LegacyReturn(self,
                      analysis.tempo_variation <= MAX_TEMPO_VARIATION)
          ELSE LegacyReturn(self, FALSE)

\* BeatAligned.evaluate; "cached" tells which branch answered.
legacy_evaluate(self, analysis) ==
  IF GetAttr(self, "BeatAligned", "evaluated")
  THEN [cached |-> TRUE]
       @@ LegacyReturn(self, GetAttr(self, "BeatAligned", "loop_start") >= 0)
  ELSE [cached |-> FALSE] @@
    LET salience == beat_salience(self, analysis) IN
    IF salience.exc # NONE THEN salience
    ELSE LET stability == IF salience.val
                          THEN tempo_stability(salience.self, analysis)
                          ELSE salience
         IN IF stability.exc # NONE THEN stability
            ELSE LegacyReturn(
                   SetAttr(stability.self, "BeatAligned", "evaluated", TRUE),
                   stability.val)

InitLegacy ==
  /\ EngineAtRest
  /\ UtilIdle
  /\ ServerIdle /\ ReceiverIdle /\ CliIdle
  /\ legacy_in \in [beats : LegacyBeats, strength : LegacyStrengths,
                    tempo_variation : LegacyVariations]
  /\ \E audio_length \in LegacyLengths,
        min_loop_ms \in LegacyMinDurations :
       legacy_self = BeatAlignedInit(audio_length, LegacySampleRate,
                                     min_loop_ms)
  /\ legacy_rets = <<>>

\* One call of evaluate() on the instance.
LegacyEvaluate ==
  /\ Len(legacy_rets) < MaxLegacyCalls
  /\ LET r == legacy_evaluate(legacy_self, legacy_in) IN
       /\ legacy_self' = r.self
       /\ legacy_rets' = Append(legacy_rets,
            [exc |-> r.exc, val |-> r.val, cached |-> r.cached])
  /\ UNCHANGED legacy_in
  /\ EngineFrame
  /\ UNCHANGED <<srvvars, receiver, clivars>>

NextLegacy == LegacyEvaluate

SpecLegacy == InitLegacy /\ [][NextLegacy]_vars

\* ---------------------------------------------------------------- claims
Candidates == {"BeatDetect", "TransientAligned", "CrossFade"}
Completed == pc = "idle" /\ result.kind \in {"loop", "none", "raise"}
EvaluatedTrue(i) == trace[i].op = "evaluate" /\ trace[i].ret = "True"

\* C1: with no pinned strategy the candidate list is exactly
\* [BeatDetect, TransientAligned, CrossFade], and a completed generate()
\* returns the loop created by the first candidate whose evaluate()
\* returned true.
C1_FirstSuitableWins ==
  ~Truthy(pinned) =>
    /\ strategies = <<"BeatDetect", "TransientAligned", "CrossFade">>
    /\ Completed =>
         \A i \in DOMAIN trace :
           EvaluatedTrue(i) => result.kind = "loop" /\ result.by = trace[i].s

\* C2: within one generate() call nothing is called on a later candidate
\* once an evaluate() has returned true; create_loop() is called at most
\* once, directly after the evaluate() of the same candidate returned true,
\* so at most one loop is created.
C2_ShortCircuit ==
  /\ \A i, j \in DOMAIN trace :
       (i < j /\ EvaluatedTrue(i)) =>
         /\ j = i + 1
         /\ trace[j].op = "create_loop"
         /\ trace[j].s = trace[i].s
  /\ Cardinality({j \in DOMAIN trace : trace[j].op = "create_loop"}) <= 1
  /\ \A j \in DOMAIN trace :
       trace[j].op = "create_loop" =>
         /\ j > 1
         /\ EvaluatedTrue(j - 1)
         /\ trace[j - 1].s = trace[j].s

\* BeatDetect qualified first: the two later candidates were never called.
C2_Witness ==
  /\ Completed
  /\ Len(strategies) = 3
  /\ result.kind = "loop"
  /\ result.by = "BeatDetect"
  /\ trace = <<[op |-> "evaluate", s |-> "BeatDetect", ret |-> "True"],
               [op |-> "create_loop", s |-> "BeatDetect", ret |-> "loop"]>>

AllFalse ==
  /\ Len(trace) = Len(strategies)
  /\ \A i \in DOMAIN trace : trace[i].op = "evaluate" /\ trace[i].ret = "False"

\* C3: when every candidate's evaluate() returned false, generate() returns
\* None without raising, the final crossfade is not applied and
\* params.strategy_id keeps the value it was given.
C3_NoLoopFound ==
  (Completed /\ AllFalse) =>
    /\ result.kind = "none"
    /\ ~crossfaded
    /\ params_strategy_id = pinned

\* Three candidates all unsuitable, with the final crossfade enabled.
C3_Witness ==
  /\ Completed
  /\ AllFalse
  /\ Len(trace) = 3
  /\ crossfade
  /\ result.kind = "none"

\* C4: with a pinned strategy generate() calls no strategy but the pinned
\* one, and returns None when the pinned strategy's evaluate() is false.
C4_PinnedOnly ==
  Truthy(pinned) =>
    /\ \A i \in DOMAIN trace : strategy_id(trace[i].s) = pinned
    /\ (Completed /\ AllFalse) => result.kind = "none"

\* CrossFade is pinned and unsuitable while BeatDetect would have qualified.
C4_Witness ==
  /\ pinned = "CrossFade"
  /\ Completed
  /\ trace = <<[op |-> "evaluate", s |-> "CrossFade", ret |-> "False"]>>
  /\ result.kind = "none"
  /\ BeatDetect_evaluate(NewInstance, beats).ret = "True"

\* C5: a pinned id naming one of the three default candidates yields a
\* candidate list holding exactly that strategy.
C5_PinnedSingleton ==
  pinned \in Candidates => strategies = <<pinned>>

\* C6: when generate() has returned a loop, params.strategy_id is the id of
\* the strategy that created it, and every candidate's id is non-empty and
\* differs from the other candidates' ids.
C6_StrategyIdRecorded ==
  (Completed /\ result.kind = "loop") =>
    /\ params_strategy_id = strategy_id(result.by)
    /\ \A i \in DOMAIN strategies : Truthy(strategy_id(strategies[i]))
    /\ \A i, j \in DOMAIN strategies :
         i # j => strategy_id(strategies[i]) # strategy_id(strategies[j])

\* C7: once evaluate() of a BeatDetect, TransientAligned or CrossFade
\* instance has returned, no later evaluate() call on it runs the analysis
\* again, and every later call returns the first call's value.
C7_EvaluateMemoized ==
  [][\A t \in Candidates :
       first_eval[t] # NONE =>
         /\ analysis_runs'[t] = analysis_runs[t]
         /\ last_eval'[t] = first_eval[t]]_vars

\* C8 (as claimed): create_loop() on an instance on which no evaluate() has
\* returned true before fails and produces no loop.
C8_CreateNeedsPriorEvaluate ==
  (last.op = "create_loop" /\ ~last.prior_true) =>
    /\ last.ret = "raise"
    /\ ~last.loop.some

\* C8 (amended): create_loop() of BeatDetect, TransientAligned and CrossFade
\* calls evaluate() itself and fails with the not-suitable ValueError,
\* producing no loop, exactly when that evaluate() returns false, whether
\* or not evaluate() was called before; FadeInOut.create_loop() never
\* fails that way.
C8_CreateChecksSuitability ==
  last.op = "create_loop" =>
    /\ last.inner = "False" =>
         /\ last.ret = "raise"
         /\ last.exc = "NotSuitable"
         /\ ~last.loop.some
    /\ last.exc = "NotSuitable" => (last.s \in Candidates /\ last.inner = "False")

\* create_loop() on a never-evaluated unsuitable BeatDetect instance raised
\* the not-suitable error.
C8_Witness ==
  /\ last.op = "create_loop"
  /\ last.s = "BeatDetect"
  /\ ~last.prior_true
  /\ first_eval["BeatDetect"] = "False"
  /\ last.inner = "False"
  /\ last.exc = "NotSuitable"

\* C9: an exception raised inside the analysis of evaluate() makes
\* evaluate() return false; it does not propagate.
C9_AnalysisErrorsCaught ==
  (last.op = "evaluate" /\ last.raised) => last.ret = "False"

\* C10: a generate() call in which a candidate qualified ends by returning
\* or by raising InvalidParameter or InvalidState (the not-suitable
\* error); a failure inside create_loop() or the blend does not end it.
C10_LocalFailuresRecovered ==
  (Completed /\ result.kind = "raise" /\ \E i \in DOMAIN trace : EvaluatedTrue(i)) =>
    result.exc \in {"InvalidParameter", "NotSuitable"}

\* C14: a loop returned by BeatDetect.create_loop() (whose evaluate() was
\* therefore true) lasts at least min_duration.
C14_LoopMeetsMinDuration ==
  (last.op = "create_loop" /\ last.s = "BeatDetect" /\ last.ret = "loop") =>
    (last.loop.len * 1000) \div SampleRate >= min_loop_duration

\* The loop boundaries slice_and_blend uses for the instance of class t:
\* the stored loop points after onset snapping.
SnappedEnds(t) ==
  adjust_loop_ends(onsets, audio_len, inst[t].loop_start, inst[t].loop_end)

\* C15: the loop slice_and_blend returns has loop_end - loop_start samples
\* per channel, taken between the onset-snapped boundaries.
C15_BlendKeepsLength ==
  (last.op = "create_loop" /\ last.s \in {"BeatDetect", "TransientAligned"}
     /\ last.ret = "loop") =>
    last.loop.len = SnappedEnds(last.s)[2] - SnappedEnds(last.s)[1]

\* BeatDetect returned a loop whose two boundaries were both moved by the
\* onset snapping.
C15_Witness ==
  /\ last.op = "create_loop"
  /\ last.s = "BeatDetect"
  /\ last.ret = "loop"
  /\ SnappedEnds("BeatDetect")[1] # inst["BeatDetect"].loop_start
  /\ SnappedEnds("BeatDetect")[2] # inst["BeatDetect"].loop_end
  /\ last.loop.len = SnappedEnds("BeatDetect")[2] - SnappedEnds("BeatDetect")[1]

\* C16: no create_loop() call writes a sample of the buffer the strategies
\* were constructed with.
C16_InputBufferUntouched ==
  shared_writes = {}

\* C17: when CrossFade.evaluate() is true and the buffer is longer than
\* twice the crossfade window, create_loop() returns a loop as long as the
\* buffer.
C17_CrossFadeLoop ==
  (last.op = "create_loop" /\ last.s = "CrossFade" /\ last.inner = "True"
     /\ audio_len > 2 * DurationSamples(CrossFade_CROSSFADE_DURATION_MS)) =>
    /\ last.ret = "loop"
    /\ last.loop.len = audio_len

\* --------------------------------------------- claims about util.py
PruneReturned == util_call.fn = "prune_silence" /\ util_ret # NoUtilRet

\* C11: prune_silence raises the invalid-parameter error, before trimming
\* or interval analysis, exactly when keep_silence_ms < 0,
\* min_silence_ms < 0 or keep_silence_ms >= min_silence_ms.
C11_InvalidSilenceParams ==
  PruneReturned =>
    LET bad == \/ util_call.keep_silence_ms < 0
               \/ util_call.min_silence_ms < 0
               \/ util_call.keep_silence_ms >= util_call.min_silence_ms
    IN /\ bad => (util_ret.kind = "raise" /\ util_ret.exc = "InvalidSilenceParams"
                    /\ ~util_ret.trimmed)
       /\ ~bad => ~(util_ret.kind = "raise" /\ util_ret.exc = "InvalidSilenceParams")

\* A negative keep_silence_ms with a valid min_silence_ms was rejected
\* before the trim.
C11_Witness ==
  /\ PruneReturned
  /\ util_call.keep_silence_ms < 0
  /\ util_call.min_silence_ms > 0
  /\ util_ret.kind = "raise"
  /\ util_ret.exc = "InvalidSilenceParams"
  /\ ~util_ret.trimmed

\* C12: pruning the pruned buffer again with the same parameters returns
\* the same samples.
C12_PruneIdempotent ==
  (util_call.fn = "prune_silence" /\ util_again # NoUtilRet) =>
    /\ util_again.kind = "audio"
    /\ util_again.audio.samples = util_ret.audio.samples

\* C13: the buffer prune_silence returns has at most as many samples per
\* channel as its input.
C13_PruneNeverLonger ==
  /\ (PruneReturned /\ util_ret.kind = "audio") =>
       Len(util_ret.audio.samples) <= Len(util_call.samples)
  /\ (util_call.fn = "prune_silence" /\ util_again # NoUtilRet /\ util_again.kind = "audio") =>
       Len(util_again.audio.samples) <= Len(util_ret.audio.samples)

\* A stereo buffer lost samples to the trim and more to the cut of an
\* inner silence.
C13_Witness ==
  /\ PruneReturned
  /\ util_call.channels = 2
  /\ util_ret.kind = "audio"
  /\ Len(util_ret.audio.samples) < Len(trim(util_call.samples))
  /\ Len(trim(util_call.samples)) < Len(util_call.samples)

ZcReturned == util_call.fn = "nearest_zero_crossing" /\ util_ret # NoUtilRet

Sgn(v) == IF v > 0 THEN 1 ELSE IF v < 0 THEN -1 ELSE 0

\* Python indices k at which the sign of the array changes between k - 1
\* and k.
SignChanges(a) == { k \in 1..(Len(a) - 1) : Sgn(At(a, k - 1)) # Sgn(At(a, k)) }

\* The search returned k or k - 1, the one of smaller magnitude.
ReturnsSmallerOf(a, k, index) ==
  /\ index \in {k - 1, k}
  /\ Abs(At(a, index)) <= Abs(At(a, k))
  /\ Abs(At(a, index)) <= Abs(At(a, k - 1))

\* C18 (as claimed): on an array with exactly one sign change, between
\* k - 1 and k, the search started below k returns k or k - 1, whichever
\* sample is smaller in magnitude.
C18_SingleSignChange ==
  ZcReturned =>
    \A k \in SignChanges(util_call.audio_data) :
      (SignChanges(util_call.audio_data) = {k} /\ util_call.start_index < k) =>
        ReturnsSmallerOf(util_call.audio_data, k, util_ret.index)

\* C18 (amended): the same for arrays without a zero-valued sample; the
\* sample at k - 1 is returned when the two magnitudes are equal.
C18_NonZeroSingleSignChange ==
  ZcReturned =>
    \A k \in SignChanges(util_call.audio_data) :
      (/\ SignChanges(util_call.audio_data) = {k}
       /\ util_call.start_index < k
       /\ \A i \in 1..Len(util_call.audio_data) : util_call.audio_data[i] # 0) =>
        /\ ReturnsSmallerOf(util_call.audio_data, k, util_ret.index)
        /\ Abs(At(util_call.audio_data, k)) = Abs(At(util_call.audio_data, k - 1))
             => util_ret.index = k - 1

\* The search started at 0 on <<2, 2, 2, -1>> returned 3.
C18_Witness ==
  /\ ZcReturned
  /\ util_call.audio_data = <<2, 2, 2, -1>>
  /\ util_call.start_index = 0
  /\ util_ret.index = 3

XfReturned ==
  util_call.fn \in {"crossfade", "equal_power_crossfade"} /\ util_ret # NoUtilRet

\* C19: the single-buffer crossfades fail when the window N exceeds half
\* the buffer length; otherwise they return a buffer of the same length
\* whose samples before the last N are those of the input.
C19_CrossfadeWindow ==
  XfReturned =>
    LET N == (SampleRate * util_call.crossfade_duration_ms) \div 1000
        n == Len(util_call.samples)
    IN /\ 2 * N > n => util_ret.kind = "raise"
       /\ 2 * N <= n =>
            /\ util_ret.kind = "array"
            /\ Len(util_ret.samples) = n
            /\ \A i \in 1..(n - N) : util_ret.samples[i] = util_call.samples[i]
            /\ \A i \in (n - N + 1)..n : util_ret.samples[i] # util_call.samples[i]

\* C20: every AudioData, the ones prune_silence returns included, has
\* length = samples per channel and duration = length * 1000 // rate.
HasTrueLength(audio) ==
  /\ audio.length = Len(audio.samples)
  /\ audio.duration = (Len(audio.samples) * 1000) \div audio.sample_rate

C20_LengthAndDuration ==
  /\ (util_call.fn = "AudioData" /\ util_ret # NoUtilRet) => HasTrueLength(util_ret.audio)
  /\ (PruneReturned /\ util_ret.kind = "audio") => HasTrueLength(util_ret.audio)

\* Sample counts of the silence parameters of the prune_silence call.
MinSilence == (SampleRate * util_call.min_silence_ms) \div 1000
KeepSilence == (SampleRate * util_call.keep_silence_ms) \div 1000

PrunedAudio == PruneReturned /\ util_ret.kind = "audio"

\* Silent gap between non-silent interval i and the next one.
Gap(i) == util_ret.intervals[i + 1][1] - util_ret.intervals[i][2]

\* Intervals i and i + 1 lie in one kept span.
Merged(i) ==
  \E k \in DOMAIN util_ret.kept :
    /\ util_ret.kept[k][1] <= util_ret.intervals[i][1]
    /\ util_ret.intervals[i + 1][2] <= util_ret.kept[k][2]

\* A kept span ends with interval i and the next one starts keep_silence
\* samples before interval i + 1.
Separated(i) ==
  \E k \in 1..(Len(util_ret.kept) - 1) :
    /\ util_ret.kept[k][2] = util_ret.intervals[i][2]
    /\ util_ret.kept[k + 1][1] = util_ret.intervals[i + 1][1] - KeepSilence

C25_FilterLoopTotal ==
  (PruneReturned /\ util_call.ndim = 2
     /\ ~(util_call.keep_silence_ms < 0 \/ util_call.min_silence_ms < 0
            \/ util_call.keep_silence_ms >= util_call.min_silence_ms)) =>
    /\ util_ret.kind = "audio"
    /\ \A k \in DOMAIN util_ret.kept :
         /\ 0 <= util_ret.kept[k][1]
         /\ util_ret.kept[k][1] < util_ret.kept[k][2]
         /\ util_ret.kept[k][2] <= util_ret.trimmed_len
    /\ \A k \in 1..(Len(util_ret.kept) - 1) :
         util_ret.kept[k][2] <= util_ret.kept[k + 1][1]

\* Python indices i >= 1 at which the product of a[i] and a[i - 1] is not
\* positive.
CrossingIndices(a) == { i \in 1..(Len(a) - 1) : a[i + 1] * a[i] <= 0 }

RightwardStart == IF util_call.start_index > 0 THEN util_call.start_index ELSE 1

\* C23 (as claimed): the search returns -1 whenever the rightward scan from
\* the start index to the end of the buffer finds no crossing.
C23_NoRightwardCrossing ==
  (/\ ZcReturned
   /\ \A i \in CrossingIndices(util_call.audio_data) : i < RightwardStart) =>
    util_ret.index = -1

\* C23 (amended): the search returns -1 exactly when the start index is
\* past the end of the buffer or the buffer has no crossing on either side
\* of the start index; with none to the right, the nearest one to the left
\* is returned.
C23_NoCrossingEitherSide ==
  ZcReturned =>
    (util_ret.index = -1 <=>
       \/ util_call.start_index >= Len(util_call.audio_data)
       \/ CrossingIndices(util_call.audio_data) = {})

\* No crossing to the right of the start index, one to the left, returned.
C23_Witness ==
  /\ ZcReturned
  /\ util_call.start_index < Len(util_call.audio_data)
  /\ CrossingIndices(util_call.audio_data) # {}
  /\ \A i \in CrossingIndices(util_call.audio_data) : i < RightwardStart
  /\ util_ret.index >= 0

FseReturned == util_call.fn = "find_similar_endpoints" /\ util_ret # NoUtilRet

\* Candidate k (counted from 0) of the transient list, snapped to a zero
\* crossing.
Snapped(k) ==
  nearest_zero_crossing(util_call.audio_data, util_call.frames[k + 1] * HopLength)

\* Number of candidate starts, and of candidate ends for start i.
StartCount == Min(Len(util_call.frames) - 1, util_call.max_frames)
EndCount(i) == Min(Len(util_call.frames) - 1 - i, util_call.max_frames)

\* The candidate end number j, counted backward from the latest transient.
EndOf(j) == Snapped(Len(util_call.frames) - 1 - j)

\* The similarity of the pair can be computed.
Comparable(start, end) ==
  /\ start + SimFrameLength <= Len(util_call.audio_data)
  /\ end >= SimFrameLength

\* The search reaches start i and end j and computes their similarity: no
\* start up to i and no end up to j failed to snap, and every end up to j
\* is comparable with start i.
Examined(i, j) ==
  /\ i \in 0..(StartCount - 1)
  /\ j \in 0..(EndCount(i) - 1)
  /\ \A i2 \in 0..i : Snapped(i2) >= 0
  /\ \A j2 \in 0..j : EndOf(j2) >= 0 /\ Comparable(Snapped(i), EndOf(j2))

Exceeds(i, j) ==
  Examined(i, j) /\ util_call.sim[<<Snapped(i), EndOf(j)>>] > SIMILARITY_THRESHOLD

ExaminedPairs ==
  { p \in (0..Len(util_call.frames)) \X (0..Len(util_call.frames)) :
      Examined(p[1], p[2]) }

\* A pair q is tried before the pair p.
Before(q, p) == q[1] < p[1] \/ (q[1] = p[1] /\ q[2] < p[2])

\* C24: the search returns the first examined pair, starts forward and
\* ends backward, whose similarity exceeds the threshold, and (-1, -1)
\* exactly when no examined pair exceeds it.
C24_FirstSimilarPair ==
  FseReturned =>
    /\ (util_ret.endpoints = <<-1, -1>>) <=>
         (\A p \in ExaminedPairs : ~Exceeds(p[1], p[2]))
    /\ \A p \in ExaminedPairs :
         (/\ Exceeds(p[1], p[2])
          /\ \A q \in ExaminedPairs : Before(q, p) => ~Exceeds(q[1], q[2])) =>
           util_ret.endpoints = <<Snapped(p[1]), EndOf(p[2])>>

\* The pair returned belongs to a later start: for the earliest start every
\* end, from the latest backward, was examined and found not similar
\* enough.
C24_Witness ==
  /\ FseReturned
  /\ \E p \in ExaminedPairs :
       /\ p[1] > 0
       /\ Exceeds(p[1], p[2])
       /\ util_ret.endpoints = <<Snapped(p[1]), EndOf(p[2])>>
       /\ \A q \in ExaminedPairs : Before(q, p) => ~Exceeds(q[1], q[2])
       /\ \E q \in ExaminedPairs : q[1] = 0 /\ q[2] > 0

GlpReturned == util_call.fn = "__get_loop_points" /\ util_ret # NoUtilRet

PowersOfTwo == {1, 2, 4, 8, 16}

\* The largest power of two not above n (n >= 1).
LargestPowerOfTwo(n) == CHOOSE e \in PowersOfTwo : e <= n /\ n < 2 * e

\* Time of the beat with Python index k.
BeatTime(k) == util_call.beat_list[k + 1].time

\* C22 (as claimed): with num_bars = beat_count / 4 the beat list is
\* unsuitable if num_bars < 1; otherwise the loop runs from the first beat
\* to the beat of index even_bars * 4 - 1, even_bars the largest power of
\* two not above num_bars.
C22_BarsOfFourBeats ==
  GlpReturned =>
    LET num_bars == Len(util_call.beat_list) \div 4
    IN IF num_bars < 1
       THEN util_ret.points.exc = "ValueError"
       ELSE /\ util_ret.points.exc = NONE
            /\ util_ret.points.start = BeatTime(0)
            /\ util_ret.points.end = BeatTime(LargestPowerOfTwo(num_bars) * 4 - 1)

\* Times of the beats labelled as downbeats.
DownbeatSet ==
  { util_call.beat_list[i].time :
      i \in { j \in DOMAIN util_call.beat_list : util_call.beat_list[j].label = 1 } }

\* C22 (amended): with num_bars = number of downbeats - 1 the beat list is
\* unsuitable if num_bars < 1; otherwise the loop runs from the first
\* downbeat to the downbeat that follows even_bars bars, even_bars the
\* largest power of two not above num_bars.
C22_BarsBetweenDownbeats ==
  GlpReturned =>
    LET num_bars == Cardinality(DownbeatSet) - 1
    IN IF num_bars < 1
       THEN util_ret.points.exc = "ValueError"
       ELSE /\ util_ret.points.exc = NONE
            /\ util_ret.points.start \in DownbeatSet
            /\ \A d \in DownbeatSet : util_ret.points.start <= d
            /\ util_ret.points.end \in DownbeatSet
            /\ Cardinality({ d \in DownbeatSet : d < util_ret.points.end })
                 = LargestPowerOfTwo(num_bars)

\* Three complete bars after a pickup: the loop starts after the first beat
\* and spans two bars.
C22_Witness ==
  /\ GlpReturned
  /\ util_ret.points.exc = NONE
  /\ Cardinality(DownbeatSet) = 4
  /\ util_ret.points.start > BeatTime(0)
  /\ Cardinality({ d \in DownbeatSet : d < util_ret.points.end }) = 2

\* The queue capacity: max_queue_size, or 100 when it is missing or not
\* positive.
QueueCapacity ==
  IF max_queue_size.kind = "int" /\ max_queue_size.value > 0
  THEN max_queue_size.value ELSE 100

\* Jobs that were put on the queue.
Enqueued == { j \in DOMAIN job_conn :
                j \in dequeued_open \cup dequeued_closed \/ \E i \in DOMAIN queue : queue[i] = j }

WasSent(c, message) == \E i \in DOMAIN sent[c] : sent[c][i] = message

\* C26: the queue never holds more than max_queue_size jobs (100 when the
\* argument is missing or not positive); a valid request that arrives
\* while the queue is full is answered with rejected/FULL and not
\* enqueued; every enqueued request was answered with accepted and the
\* job's uuid.
C26_BoundedQueueAndReplies ==
  /\ Len(queue) <= QueueCapacity
  /\ (last_req.valid /\ last_req.full) =>
       (last_req.reply = FULL_MESSAGE /\ ~last_req.enqueued /\ last_req.uuid \notin Enqueued)
  /\ \A j \in Enqueued : WasSent(job_conn[j], AcceptedMessage(j))

\* Number of times a message was issued on connection c.
MsgCount(c, message) == Cardinality({ i \in DOMAIN sent[c] : sent[c][i] = message })

\* Terminal messages issued for job j.
Terminals(j) ==
  MsgCount(job_conn[j], SuccessMessage(j)) + MsgCount(job_conn[j], FailureMessage(j))

\* The success message of job j is followed by all chunks of its audio.
FollowedByChunks(j) ==
  \E k \in DOMAIN sent[job_conn[j]] :
    /\ sent[job_conn[j]][k] = SuccessMessage(j)
    /\ Cardinality({ i \in DOMAIN sent[job_conn[j]] :
                       i > k /\ sent[job_conn[j]][i] = ChunkMessage(j) }) = LoopChunks

\* A job dequeued on a closed connection is skipped: no audio, no message.
SkippedWhenClosed ==
  \A j \in dequeued_closed : j \notin generated /\ Terminals(j) = 0

\* C27 (as claimed): every job dequeued while its connection is connected
\* gets exactly one terminal message, success followed by the chunks or
\* error/FAIL; a job whose connection is closed is skipped without
\* generating audio.
C27_ExactlyOneTerminal ==
  /\ \A j \in done \cap dequeued_open :
       /\ Terminals(j) = 1
       /\ WasSent(job_conn[j], SuccessMessage(j)) => FollowedByChunks(j)
  /\ SkippedWhenClosed

\* C27 (amended): such a job gets at most one terminal message, and
\* exactly one, success with all its chunks or error/FAIL, when its
\* connection is still connected after the worker is done with it; when
\* the connection closes meanwhile the messages not yet sent are dropped.
C27_OneTerminalWhileConnected ==
  /\ \A j \in done \cap dequeued_open :
       /\ Terminals(j) <= 1
       /\ MsgCount(job_conn[j], ChunkMessage(j)) > 0 => WasSent(job_conn[j], SuccessMessage(j))
       /\ Connected(conn_state, job_conn[j]) =>
            /\ Terminals(j) = 1
            /\ WasSent(job_conn[j], SuccessMessage(j)) => FollowedByChunks(j)
  /\ SkippedWhenClosed

\* One job was answered with success and its chunks on a connection that
\* is still open, another was skipped because its connection was closed.
C27_Witness ==
  /\ \E j \in done \cap dequeued_open :
       /\ Connected(conn_state, job_conn[j])
       /\ Terminals(j) = 1
       /\ FollowedByChunks(j)
  /\ \E j \in done \cap dequeued_closed : TRUE

\* C28: the receiver status only moves from 0 to 1 or from 0 to -1; once it
\* is 1 or -1 no later receive() call changes it.
C28_StatusIsFinal ==
  [][receiver.status \in {1, -1} => receiver'.status = receiver.status]_vars

\* C29: the generate command terminates: its retry loop eventually obtains
\* a loop, stores it exactly once and exits.
C29_StoresOnceAndExits == <>(cli_pc = "done" /\ stored = 1)

\* --------------------------------- claims about the legacy BeatAligned
\* C30: the legacy BeatAligned.evaluate() performs its evaluation only
\* once and caches the result: every call after the first is answered from
\* the cache and returns the same value as the first call returned.
C30_EvaluateCached ==
  \A i \in 2..Len(legacy_rets) :
    /\ legacy_rets[1].exc = NONE
    /\ legacy_rets[i].exc = NONE
    /\ legacy_rets[i].cached
    /\ legacy_rets[i].val = legacy_rets[1].val

====
